---- MODULE Spec2Model ----
(***************************************************************************)
(* Speaker attribution engine of who-said-that: the three analyzer         *)
(* variants (transcript_analyzer_simple.py "simple", transcript_analyzer_  *)
(* v2.py "v2", transcript_analyzer.py "original").  One behaviour is one   *)
(* call of analyze_transcript on one file: read, empty check, the marker   *)
(* pass of the segmenter line by line, the final flush, the fallback path, *)
(* and the aggregation into a TranscriptAnalysis.                          *)
(*                                                                         *)
(* A transcript is a sequence of lines drawn from a fixed set of concrete  *)
(* lines (the text field of the tables below).  For every line the tables  *)
(* hold what the regular expressions of the source yield on that line, as  *)
(* the whole line (raw) and as the marker-stripped text that the segmenter *)
(* computes (clean): the indices of the rules of each rule list that       *)
(* match, the word count of the variant, and the counts the feature        *)
(* adjustments use.  No rule of the source matches across a line break on  *)
(* these lines, so the value on a text of several lines is the union or    *)
(* the sum of the values of its lines.                                     *)
(*                                                                         *)
(* Numbers: an additive score is an integer in units of 0.05, a            *)
(* probability or a confidence is an integer in units of 1/10000, a ratio  *)
(* is a record [num, den].                                                 *)
(***************************************************************************)
EXTENDS Integers, Sequences, FiniteSets, TLC

\* Longest transcript, in lines: of any lines, and of unmarked lines only
\* (the transcripts that reach the paragraph chunks of the v2 fallback).
MaxLines == 3
MaxPlainLines == 5
\* Most files in one batch.
MaxFiles == 3

\* Most lines in the unmarked tail of a long transcript.
MaxLongLines == 11

Variants == {"simple", "v2", "original"}

\* The concrete lines a transcript is made of.
Kinds ==
  {"blank", "stu_q", "ai_ans", "stu_only", "ai_only", "prof", "both", "stu_num",
   "plain_stu", "plain_ai", "num"}

PlainKinds == {"blank", "plain_stu", "plain_ai"}

\* Values of textstat.flesch_kincaid_grade (an external library) on the
\* classified text: below 8, between 8 and 12, above 12.  The middle value
\* also stands for the call raising (no adjustment, or the default 8 of v2).
FleschKincaidGrades == {5, 10, 14}

SimpleLines ==
  [
    blank |->
      [text |-> "", blank |-> TRUE, clean_empty |-> TRUE,
       clean_text |-> "",
       matches |-> {},
       raw |-> [sMark |-> {}, aMark |-> {}, aiPat |-> {}, stPat |-> {}, words |-> 0, math |-> FALSE, q |-> 0],
       clean |-> [sMark |-> {}, aMark |-> {}, aiPat |-> {}, stPat |-> {}, words |-> 0, math |-> FALSE, q |-> 0]],
    stu_q |->
      [text |-> "Student: What is 2+2?", blank |-> FALSE, clean_empty |-> FALSE,
       clean_text |-> "What is 2+2?",
       matches |-> {[role |-> "Student", rule |-> 1, rest |-> "What is 2+2?"]},
       raw |-> [sMark |-> {1}, aMark |-> {}, aiPat |-> {}, stPat |-> {3, 6}, words |-> 3, math |-> TRUE, q |-> 1],
       clean |-> [sMark |-> {}, aMark |-> {}, aiPat |-> {}, stPat |-> {3, 6}, words |-> 2, math |-> TRUE, q |-> 1]],
    ai_ans |->
      [text |-> "AI: The answer is 4.", blank |-> FALSE, clean_empty |-> FALSE,
       clean_text |-> "The answer is 4.",
       matches |-> {[role |-> "AI", rule |-> 2, rest |-> "The answer is 4."]},
       raw |-> [sMark |-> {}, aMark |-> {2}, aiPat |-> {}, stPat |-> {6}, words |-> 4, math |-> FALSE, q |-> 0],
       clean |-> [sMark |-> {}, aMark |-> {}, aiPat |-> {}, stPat |-> {6}, words |-> 3, math |-> FALSE, q |-> 0]],
    stu_only |->
      [text |-> "Student:", blank |-> FALSE, clean_empty |-> TRUE,
       clean_text |-> "",
       matches |-> {[role |-> "Student", rule |-> 1, rest |-> ""]},
       raw |-> [sMark |-> {1}, aMark |-> {}, aiPat |-> {}, stPat |-> {6}, words |-> 1, math |-> FALSE, q |-> 0],
       clean |-> [sMark |-> {}, aMark |-> {}, aiPat |-> {}, stPat |-> {}, words |-> 0, math |-> FALSE, q |-> 0]],
    ai_only |->
      [text |-> "AI:", blank |-> FALSE, clean_empty |-> TRUE,
       clean_text |-> "",
       matches |-> {[role |-> "AI", rule |-> 2, rest |-> ""]},
       raw |-> [sMark |-> {}, aMark |-> {2}, aiPat |-> {}, stPat |-> {6}, words |-> 1, math |-> FALSE, q |-> 0],
       clean |-> [sMark |-> {}, aMark |-> {}, aiPat |-> {}, stPat |-> {}, words |-> 0, math |-> FALSE, q |-> 0]],
    prof |->
      [text |-> "Prof. Kim: Consider this.", blank |-> FALSE, clean_empty |-> FALSE,
       clean_text |-> "Consider this.",
       matches |-> {[role |-> "AI", rule |-> 1, rest |-> "Consider this."]},
       raw |-> [sMark |-> {}, aMark |-> {1}, aiPat |-> {6}, stPat |-> {6}, words |-> 4, math |-> FALSE, q |-> 0],
       clean |-> [sMark |-> {}, aMark |-> {}, aiPat |-> {6}, stPat |-> {6}, words |-> 2, math |-> FALSE, q |-> 0]],
    both |->
      [text |-> "Student Assistant: hi", blank |-> FALSE, clean_empty |-> FALSE,
       clean_text |-> "hi",
       matches |-> {[role |-> "Student", rule |-> 1, rest |-> "hi"], [role |-> "AI", rule |-> 3, rest |-> "hi"]},
       raw |-> [sMark |-> {1}, aMark |-> {3}, aiPat |-> {}, stPat |-> {6}, words |-> 3, math |-> FALSE, q |-> 0],
       clean |-> [sMark |-> {}, aMark |-> {}, aiPat |-> {}, stPat |-> {6}, words |-> 1, math |-> FALSE, q |-> 0]],
    stu_num |->
      [text |-> "Student: 123", blank |-> FALSE, clean_empty |-> FALSE,
       clean_text |-> "123",
       matches |-> {[role |-> "Student", rule |-> 1, rest |-> "123"]},
       raw |-> [sMark |-> {1}, aMark |-> {}, aiPat |-> {}, stPat |-> {6}, words |-> 1, math |-> FALSE, q |-> 0],
       clean |-> [sMark |-> {}, aMark |-> {}, aiPat |-> {}, stPat |-> {}, words |-> 0, math |-> FALSE, q |-> 0]],
    plain_stu |->
      [text |-> "ok so why?", blank |-> FALSE, clean_empty |-> FALSE,
       clean_text |-> "ok so why?",
       matches |-> {},
       raw |-> [sMark |-> {}, aMark |-> {}, aiPat |-> {}, stPat |-> {1, 3, 4, 6}, words |-> 3, math |-> FALSE, q |-> 1],
       clean |-> [sMark |-> {}, aMark |-> {}, aiPat |-> {}, stPat |-> {1, 3, 4, 6}, words |-> 3, math |-> FALSE, q |-> 1]],
    plain_ai |->
      [text |-> "**Intro** Let's explore. Your task: Consider the sum. === Page 2 ===", blank |-> FALSE, clean_empty |-> FALSE,
       clean_text |-> "**Intro** Let's explore. Your task: Consider the sum. === Page 2 ===",
       matches |-> {},
       raw |-> [sMark |-> {}, aMark |-> {}, aiPat |-> {1, 2, 4, 5, 6}, stPat |-> {}, words |-> 10, math |-> TRUE, q |-> 0],
       clean |-> [sMark |-> {}, aMark |-> {}, aiPat |-> {1, 2, 4, 5, 6}, stPat |-> {}, words |-> 10, math |-> TRUE, q |-> 0]],
    num |->
      [text |-> "42", blank |-> FALSE, clean_empty |-> FALSE,
       clean_text |-> "42",
       matches |-> {},
       raw |-> [sMark |-> {}, aMark |-> {}, aiPat |-> {}, stPat |-> {}, words |-> 0, math |-> FALSE, q |-> 0],
       clean |-> [sMark |-> {}, aMark |-> {}, aiPat |-> {}, stPat |-> {}, words |-> 0, math |-> FALSE, q |-> 0]]
  ]

V2Lines ==
  [
    blank |->
      [text |-> "", blank |-> TRUE, clean_empty |-> TRUE,
       clean_text |-> "",
       matches |-> {},
       raw |-> [sMark |-> {}, aMark |-> {}, aiPat |-> {}, stPat |-> {}, words |-> 0, sent |-> 0, q |-> 0, math |-> FALSE, instr |-> 0, uncert |-> 0, casual |-> 0, formal |-> 0],
       clean |-> [sMark |-> {}, aMark |-> {}, aiPat |-> {}, stPat |-> {}, words |-> 0, sent |-> 0, q |-> 0, math |-> FALSE, instr |-> 0, uncert |-> 0, casual |-> 0, formal |-> 0]],
    stu_q |->
      [text |-> "Student: What is 2+2?", blank |-> FALSE, clean_empty |-> FALSE,
       clean_text |-> "What is 2+2?",
       matches |-> {[role |-> "Student", rule |-> 1, rest |-> "What is 2+2?"]},
       raw |-> [sMark |-> {1}, aMark |-> {}, aiPat |-> {}, stPat |-> {3}, words |-> 4, sent |-> 1, q |-> 1, math |-> TRUE, instr |-> 0, uncert |-> 0, casual |-> 0, formal |-> 0],
       clean |-> [sMark |-> {}, aMark |-> {}, aiPat |-> {}, stPat |-> {3}, words |-> 3, sent |-> 1, q |-> 1, math |-> TRUE, instr |-> 0, uncert |-> 0, casual |-> 0, formal |-> 0]],
    ai_ans |->
      [text |-> "AI: The answer is 4.", blank |-> FALSE, clean_empty |-> FALSE,
       clean_text |-> "The answer is 4.",
       matches |-> {[role |-> "AI", rule |-> 1, rest |-> "The answer is 4."]},
       raw |-> [sMark |-> {}, aMark |-> {1}, aiPat |-> {}, stPat |-> {}, words |-> 5, sent |-> 1, q |-> 0, math |-> FALSE, instr |-> 0, uncert |-> 0, casual |-> 0, formal |-> 0],
       clean |-> [sMark |-> {}, aMark |-> {}, aiPat |-> {}, stPat |-> {}, words |-> 4, sent |-> 1, q |-> 0, math |-> FALSE, instr |-> 0, uncert |-> 0, casual |-> 0, formal |-> 0]],
    stu_only |->
      [text |-> "Student:", blank |-> FALSE, clean_empty |-> TRUE,
       clean_text |-> "",
       matches |-> {[role |-> "Student", rule |-> 1, rest |-> ""]},
       raw |-> [sMark |-> {1}, aMark |-> {}, aiPat |-> {}, stPat |-> {}, words |-> 1, sent |-> 0, q |-> 0, math |-> FALSE, instr |-> 0, uncert |-> 0, casual |-> 0, formal |-> 0],
       clean |-> [sMark |-> {}, aMark |-> {}, aiPat |-> {}, stPat |-> {}, words |-> 0, sent |-> 0, q |-> 0, math |-> FALSE, instr |-> 0, uncert |-> 0, casual |-> 0, formal |-> 0]],
    ai_only |->
      [text |-> "AI:", blank |-> FALSE, clean_empty |-> TRUE,
       clean_text |-> "",
       matches |-> {[role |-> "AI", rule |-> 1, rest |-> ""]},
       raw |-> [sMark |-> {}, aMark |-> {1}, aiPat |-> {}, stPat |-> {}, words |-> 1, sent |-> 0, q |-> 0, math |-> FALSE, instr |-> 0, uncert |-> 0, casual |-> 0, formal |-> 0],
       clean |-> [sMark |-> {}, aMark |-> {}, aiPat |-> {}, stPat |-> {}, words |-> 0, sent |-> 0, q |-> 0, math |-> FALSE, instr |-> 0, uncert |-> 0, casual |-> 0, formal |-> 0]],
    prof |->
      [text |-> "Prof. Kim: Consider this.", blank |-> FALSE, clean_empty |-> FALSE,
       clean_text |-> "Consider this.",
       matches |-> {[role |-> "AI", rule |-> 2, rest |-> "Consider this."]},
       raw |-> [sMark |-> {}, aMark |-> {2}, aiPat |-> {7}, stPat |-> {}, words |-> 4, sent |-> 2, q |-> 0, math |-> FALSE, instr |-> 1, uncert |-> 0, casual |-> 0, formal |-> 0],
       clean |-> [sMark |-> {}, aMark |-> {}, aiPat |-> {7}, stPat |-> {}, words |-> 2, sent |-> 1, q |-> 0, math |-> FALSE, instr |-> 1, uncert |-> 0, casual |-> 0, formal |-> 0]],
    both |->
      [text |-> "Student Assistant: hi", blank |-> FALSE, clean_empty |-> FALSE,
       clean_text |-> "hi",
       matches |-> {[role |-> "Student", rule |-> 1, rest |-> "hi"], [role |-> "AI", rule |-> 3, rest |-> "hi"]},
       raw |-> [sMark |-> {1}, aMark |-> {3}, aiPat |-> {}, stPat |-> {}, words |-> 3, sent |-> 0, q |-> 0, math |-> FALSE, instr |-> 0, uncert |-> 0, casual |-> 0, formal |-> 0],
       clean |-> [sMark |-> {}, aMark |-> {}, aiPat |-> {}, stPat |-> {}, words |-> 1, sent |-> 0, q |-> 0, math |-> FALSE, instr |-> 0, uncert |-> 0, casual |-> 0, formal |-> 0]],
    stu_num |->
      [text |-> "Student: 123", blank |-> FALSE, clean_empty |-> FALSE,
       clean_text |-> "123",
       matches |-> {[role |-> "Student", rule |-> 1, rest |-> "123"]},
       raw |-> [sMark |-> {1}, aMark |-> {}, aiPat |-> {}, stPat |-> {}, words |-> 2, sent |-> 0, q |-> 0, math |-> FALSE, instr |-> 0, uncert |-> 0, casual |-> 0, formal |-> 0],
       clean |-> [sMark |-> {}, aMark |-> {}, aiPat |-> {}, stPat |-> {}, words |-> 1, sent |-> 0, q |-> 0, math |-> FALSE, instr |-> 0, uncert |-> 0, casual |-> 0, formal |-> 0]],
    plain_stu |->
      [text |-> "ok so why?", blank |-> FALSE, clean_empty |-> FALSE,
       clean_text |-> "ok so why?",
       matches |-> {},
       raw |-> [sMark |-> {}, aMark |-> {}, aiPat |-> {}, stPat |-> {1, 3, 4}, words |-> 3, sent |-> 1, q |-> 1, math |-> FALSE, instr |-> 0, uncert |-> 0, casual |-> 1, formal |-> 0],
       clean |-> [sMark |-> {}, aMark |-> {}, aiPat |-> {}, stPat |-> {1, 3, 4}, words |-> 3, sent |-> 1, q |-> 1, math |-> FALSE, instr |-> 0, uncert |-> 0, casual |-> 1, formal |-> 0]],
    plain_ai |->
      [text |-> "**Intro** Let's explore. Your task: Consider the sum. === Page 2 ===", blank |-> FALSE, clean_empty |-> FALSE,
       clean_text |-> "**Intro** Let's explore. Your task: Consider the sum. === Page 2 ===",
       matches |-> {},
       raw |-> [sMark |-> {}, aMark |-> {}, aiPat |-> {1, 2, 4, 5, 7}, stPat |-> {}, words |-> 12, sent |-> 2, q |-> 0, math |-> TRUE, instr |-> 1, uncert |-> 0, casual |-> 0, formal |-> 0],
       clean |-> [sMark |-> {}, aMark |-> {}, aiPat |-> {1, 2, 4, 5, 7}, stPat |-> {}, words |-> 12, sent |-> 2, q |-> 0, math |-> TRUE, instr |-> 1, uncert |-> 0, casual |-> 0, formal |-> 0]],
    num |->
      [text |-> "42", blank |-> FALSE, clean_empty |-> FALSE,
       clean_text |-> "42",
       matches |-> {},
       raw |-> [sMark |-> {}, aMark |-> {}, aiPat |-> {}, stPat |-> {}, words |-> 1, sent |-> 0, q |-> 0, math |-> FALSE, instr |-> 0, uncert |-> 0, casual |-> 0, formal |-> 0],
       clean |-> [sMark |-> {}, aMark |-> {}, aiPat |-> {}, stPat |-> {}, words |-> 1, sent |-> 0, q |-> 0, math |-> FALSE, instr |-> 0, uncert |-> 0, casual |-> 0, formal |-> 0]]
  ]

OriginalLines ==
  [
    blank |->
      [text |-> "", blank |-> TRUE, clean_empty |-> TRUE,
       clean_text |-> "",
       matches |-> {},
       raw |-> [aiPat |-> {}, instPat |-> {}, stPat |-> {}, words |-> 0, math |-> FALSE, instrLang |-> FALSE, noise |-> {}],
       clean |-> [aiPat |-> {}, instPat |-> {}, stPat |-> {}, words |-> 0, math |-> FALSE, instrLang |-> FALSE, noise |-> {}]],
    stu_q |->
      [text |-> "Student: What is 2+2?", blank |-> FALSE, clean_empty |-> FALSE,
       clean_text |-> "What is 2+2?",
       matches |-> {[role |-> "Student", rule |-> 2, rest |-> "What is 2+2?"], [role |-> "Student", rule |-> 4, rest |-> "What is 2+2?"]},
       raw |-> [aiPat |-> {}, instPat |-> {}, stPat |-> {2, 4}, words |-> 3, math |-> FALSE, instrLang |-> FALSE, noise |-> {}],
       clean |-> [aiPat |-> {}, instPat |-> {}, stPat |-> {}, words |-> 2, math |-> FALSE, instrLang |-> FALSE, noise |-> {}]],
    ai_ans |->
      [text |-> "AI: The answer is 4.", blank |-> FALSE, clean_empty |-> FALSE,
       clean_text |-> "AI: The answer is 4.",
       matches |-> {},
       raw |-> [aiPat |-> {}, instPat |-> {}, stPat |-> {}, words |-> 4, math |-> FALSE, instrLang |-> FALSE, noise |-> {}],
       clean |-> [aiPat |-> {}, instPat |-> {}, stPat |-> {}, words |-> 4, math |-> FALSE, instrLang |-> FALSE, noise |-> {}]],
    stu_only |->
      [text |-> "Student:", blank |-> FALSE, clean_empty |-> TRUE,
       clean_text |-> "",
       matches |-> {[role |-> "Student", rule |-> 2, rest |-> ""], [role |-> "Student", rule |-> 4, rest |-> ""]},
       raw |-> [aiPat |-> {}, instPat |-> {}, stPat |-> {2, 4}, words |-> 1, math |-> FALSE, instrLang |-> FALSE, noise |-> {}],
       clean |-> [aiPat |-> {}, instPat |-> {}, stPat |-> {}, words |-> 0, math |-> FALSE, instrLang |-> FALSE, noise |-> {}]],
    ai_only |->
      [text |-> "AI:", blank |-> FALSE, clean_empty |-> FALSE,
       clean_text |-> "AI:",
       matches |-> {},
       raw |-> [aiPat |-> {}, instPat |-> {}, stPat |-> {}, words |-> 1, math |-> FALSE, instrLang |-> FALSE, noise |-> {}],
       clean |-> [aiPat |-> {}, instPat |-> {}, stPat |-> {}, words |-> 1, math |-> FALSE, instrLang |-> FALSE, noise |-> {}]],
    prof |->
      [text |-> "Prof. Kim: Consider this.", blank |-> FALSE, clean_empty |-> FALSE,
       clean_text |-> "Consider this.",
       matches |-> {[role |-> "AI", rule |-> 1, rest |-> "Consider this."]},
       raw |-> [aiPat |-> {}, instPat |-> {1}, stPat |-> {}, words |-> 4, math |-> FALSE, instrLang |-> TRUE, noise |-> {}],
       clean |-> [aiPat |-> {}, instPat |-> {}, stPat |-> {}, words |-> 2, math |-> FALSE, instrLang |-> TRUE, noise |-> {}]],
    both |->
      [text |-> "Student Assistant: hi", blank |-> FALSE, clean_empty |-> FALSE,
       clean_text |-> "hi",
       matches |-> {[role |-> "AI", rule |-> 2, rest |-> "hi"]},
       raw |-> [aiPat |-> {}, instPat |-> {2}, stPat |-> {}, words |-> 3, math |-> FALSE, instrLang |-> FALSE, noise |-> {}],
       clean |-> [aiPat |-> {}, instPat |-> {}, stPat |-> {}, words |-> 1, math |-> FALSE, instrLang |-> FALSE, noise |-> {}]],
    stu_num |->
      [text |-> "Student: 123", blank |-> FALSE, clean_empty |-> FALSE,
       clean_text |-> "123",
       matches |-> {[role |-> "Student", rule |-> 2, rest |-> "123"], [role |-> "Student", rule |-> 4, rest |-> "123"]},
       raw |-> [aiPat |-> {}, instPat |-> {}, stPat |-> {2, 4}, words |-> 1, math |-> FALSE, instrLang |-> FALSE, noise |-> {}],
       clean |-> [aiPat |-> {}, instPat |-> {}, stPat |-> {}, words |-> 0, math |-> FALSE, instrLang |-> FALSE, noise |-> {}]],
    plain_stu |->
      [text |-> "ok so why?", blank |-> FALSE, clean_empty |-> FALSE,
       clean_text |-> "ok so why?",
       matches |-> {},
       raw |-> [aiPat |-> {}, instPat |-> {}, stPat |-> {}, words |-> 3, math |-> FALSE, instrLang |-> FALSE, noise |-> {}],
       clean |-> [aiPat |-> {}, instPat |-> {}, stPat |-> {}, words |-> 3, math |-> FALSE, instrLang |-> FALSE, noise |-> {}]],
    plain_ai |->
      [text |-> "**Intro** Let's explore. Your task: Consider the sum. === Page 2 ===", blank |-> FALSE, clean_empty |-> FALSE,
       clean_text |-> "**Intro** Let's explore. Your task: Consider the sum. === Page 2 ===",
       matches |-> {},
       raw |-> [aiPat |-> {2, 3, 6}, instPat |-> {}, stPat |-> {}, words |-> 10, math |-> FALSE, instrLang |-> TRUE, noise |-> {}],
       clean |-> [aiPat |-> {2, 3, 6}, instPat |-> {}, stPat |-> {}, words |-> 10, math |-> FALSE, instrLang |-> TRUE, noise |-> {}]],
    num |->
      [text |-> "42", blank |-> FALSE, clean_empty |-> FALSE,
       clean_text |-> "42",
       matches |-> {},
       raw |-> [aiPat |-> {}, instPat |-> {}, stPat |-> {}, words |-> 0, math |-> FALSE, instrLang |-> FALSE, noise |-> {}],
       clean |-> [aiPat |-> {}, instPat |-> {}, stPat |-> {}, words |-> 0, math |-> FALSE, instrLang |-> FALSE, noise |-> {}]]
  ]

SigmoidTable ==
  <<5000, 5125, 5250, 5374, 5498, 5622, 5744, 5866, 5987, 6106, 6225, 6341, 6457, 6570, 6682, 6792, 6900, 7006, 7109, 7211, 7311, 7408, 7503, 7595, 7685, 7773, 7858, 7941, 8022, 8100, 8176, 8249, 8320, 8389, 8455, 8520, 8581, 8641, 8699, 8754, 8808, 8859, 8909, 8957, 9002, 9047>>

\* 1 / (1 + exp(-x)) for x = 0.05 * s, s = 0 .. 45, in units of 1/10000.
Sigmoid(s) ==
  IF s >= 0 THEN SigmoidTable[s + 1] ELSE 10000 - SigmoidTable[(-s) + 1]

LinesOf(v) ==
  CASE v = "simple" -> SimpleLines
    [] v = "v2" -> V2Lines
    [] OTHER -> OriginalLines

\* A text is a sequence of pieces, one per line of the text: a line of the
\* transcript as it is (form "raw") or with its marker stripped ("clean").
Raw(k) == [kind |-> k, form |-> "raw"]
\* Mutant: the new text starts with the line as it is, marker included.
Clean_KeepsMarker(k) == [kind |-> k, form |-> "raw"]
Clean(k) == [kind |-> k, form |-> "clean"]
Attr(v, p) == LinesOf(v)[p.kind][p.form]

RECURSIVE SeqSum(_)
SeqSum(s) == IF s = <<>> THEN 0 ELSE Head(s) + SeqSum(Tail(s))

Max(a, b) == IF a >= b THEN a ELSE b
Min(a, b) == IF a <= b THEN a ELSE b
Abs(a) == IF a >= 0 THEN a ELSE -a

\* not text.strip()
IsBlankText(text) == \A j \in 1..Len(text) : text[j].kind = "blank"

\* The rules of a list that match somewhere in the text (re.search with
\* re.MULTILINE): the union over the lines of the text.
AiMarkerRules(v, text) == UNION {Attr(v, text[j]).aMark : j \in 1..Len(text)}
StudentMarkerRules(v, text) == UNION {Attr(v, text[j]).sMark : j \in 1..Len(text)}
AiContentRules(v, text) == UNION {Attr(v, text[j]).aiPat : j \in 1..Len(text)}
StudentContentRules(v, text) == UNION {Attr(v, text[j]).stPat : j \in 1..Len(text)}
InstructorRules(text) == UNION {Attr("original", text[j]).instPat : j \in 1..Len(text)}
NoiseRules(text) == UNION {Attr("original", text[j]).noise : j \in 1..Len(text)}
HasMath(v, text) == \E j \in 1..Len(text) : Attr(v, text[j]).math
QuestionCount(v, text) == SeqSum([j \in 1..Len(text) |-> Attr(v, text[j]).q])

\* count_words of simple and original (alphabetic words after the markup is
\* removed); for v2 the number of whitespace-separated tokens, len(text.split()).
count_words(v, text) == SeqSum([j \in 1..Len(text) |-> Attr(v, text[j]).words])

\* Confidence of a segment labelled by the marker pass (0.9) and of a text on
\* which the classifier's own marker check fires (0.95).
MarkerPassConfidence == 9000
MarkerCheckConfidence == 9500

Verdict(s, c, b) == [speaker |-> s, confidence |-> c, by |-> b]

\* The content rule lists (ai_content_patterns and student_content_patterns in
\* simple, ai_indicators and student_indicators in v2) as the positions of
\* their rules, and what one matching rule adds to the score, in units of 0.05.
ai_content_patterns(v) == IF v = "simple" THEN 1..9 ELSE 1..9
student_content_patterns(v) == IF v = "simple" THEN 1..6 ELSE 1..5
AiIncrement(v) == IF v = "simple" THEN 4 ELSE 3
StudentDecrement(v) == IF v = "simple" THEN 5 ELSE 4

\* One loop "for pattern in rules: if re.search(pattern, text): ai_score += step"
\* from rule r on; matched is the set of rules that re.search finds in the text.
RECURSIVE pattern_loop(_, _, _, _)
pattern_loop(rules, matched, step, r) ==
  IF r \notin rules THEN 0
  ELSE (IF r \in matched THEN step ELSE 0) + pattern_loop(rules, matched, step, r + 1)

\* Mutant: every line of the text is searched on its own, so a rule counts
\* once for each line it matches.
content_pattern_score_PerLine(v, text) ==
  SeqSum([j \in 1..Len(text) |->
            pattern_loop(ai_content_patterns(v), Attr(v, text[j]).aiPat, AiIncrement(v), 1)
            + pattern_loop(student_content_patterns(v), Attr(v, text[j]).stPat,
                           -StudentDecrement(v), 1)])

\* The two rule loops of the content scoring, AI rules then Student rules.
content_pattern_score(v, text) ==
  pattern_loop(ai_content_patterns(v), AiContentRules(v, text), AiIncrement(v), 1)
  + pattern_loop(student_content_patterns(v), StudentContentRules(v, text),
                 -StudentDecrement(v), 1)

\* SmartTranscriptAnalyzer.classify_speaker.  grade is the reading level that
\* textstat returns for the text.
simple_score(text, grade) ==
  LET word_count == count_words("simple", text)
      question_count == QuestionCount("simple", text)
  IN  content_pattern_score("simple", text)
      + (IF word_count > 100 THEN 2 ELSE IF word_count < 20 THEN -2 ELSE 0)
      + (IF grade > 12 THEN 1 ELSE IF grade < 8 THEN -1 ELSE 0)
      + (IF HasMath("simple", text) THEN 2 ELSE 0)
      + (IF question_count > 0 /\ word_count > 0 /\ 10 * question_count > word_count
         THEN -2 ELSE 0)

\* Mutant: the decision is ai_prob >= 0.5, a tie goes to AI.
simple_content_verdict_TieToAi(text, grade) ==
  LET ai_prob == Sigmoid(simple_score(text, grade))
  IN  IF ai_prob >= 5000 THEN Verdict("AI", ai_prob, "content")
      ELSE Verdict("Student", 10000 - ai_prob, "content")

\* Mutant: the confidence of a Student verdict is ai_prob, not 1 - ai_prob.
simple_content_verdict_RawProbability(text, grade) ==
  LET ai_prob == Sigmoid(simple_score(text, grade))
  IN  IF ai_prob > 5000 THEN Verdict("AI", ai_prob, "content")
      ELSE Verdict("Student", ai_prob, "content")

\* The content part of classify_speaker: the sigmoid of the score and the
\* decision at 0.5.
simple_content_verdict(text, grade) ==
  LET ai_prob == Sigmoid(simple_score(text, grade))
  IN  IF ai_prob > 5000 THEN Verdict("AI", ai_prob, "content")
      ELSE Verdict("Student", 10000 - ai_prob, "content")

\* Mutant: classify_speaker without its check of the explicit markers.
classify_speaker_NoMarkerCheck(text, grade) ==
  IF IsBlankText(text) THEN Verdict("AI", 5000, "content")
  ELSE simple_content_verdict(text, grade)

classify_speaker(text, grade) ==
  IF IsBlankText(text) THEN Verdict("AI", 5000, "content")
  ELSE IF StudentMarkerRules("simple", text) # {}
       THEN Verdict("Student", MarkerCheckConfidence, "marker_check")
  ELSE IF AiMarkerRules("simple", text) # {}
       THEN Verdict("AI", MarkerCheckConfidence, "marker_check")
  ELSE simple_content_verdict(text, grade)

\* AdvancedTranscriptAnalyzer.extract_features: the features the classifier
\* reads.  present is FALSE for the empty dict of a blank text.
extract_features(text, grade) ==
  IF IsBlankText(text)
  THEN [present |-> FALSE, word_count |-> 0, sentence_count |-> 1, question_count |-> 0,
        has_math |-> FALSE, formal |-> 0, instruction |-> 0, uncertainty |-> 0,
        casual |-> 0, flesch_kincaid_grade |-> 8]
  ELSE [present |-> TRUE,
        word_count |-> count_words("v2", text),
        sentence_count |->
          Max(1, SeqSum([j \in 1..Len(text) |-> Attr("v2", text[j]).sent])),
        question_count |-> QuestionCount("v2", text),
        has_math |-> HasMath("v2", text),
        formal |-> SeqSum([j \in 1..Len(text) |-> Attr("v2", text[j]).formal]),
        instruction |-> SeqSum([j \in 1..Len(text) |-> Attr("v2", text[j]).instr]),
        uncertainty |-> SeqSum([j \in 1..Len(text) |-> Attr("v2", text[j]).uncert]),
        casual |-> SeqSum([j \in 1..Len(text) |-> Attr("v2", text[j]).casual]),
        flesch_kincaid_grade |-> grade]

\* AdvancedTranscriptAnalyzer.calculate_speaker_probability.  A hit rate
\* count / max(1, word_count) > 0.02 is 50 * count > max(1, word_count).
v2_score(text, f) ==
  LET wc == Max(1, f.word_count)
  IN  content_pattern_score("v2", text)
      + (IF ~f.present THEN 0
         ELSE (IF f.word_count > 100 THEN 2 ELSE IF f.word_count < 20 THEN -2 ELSE 0)
              + (IF 50 * f.instruction > wc THEN 3 ELSE 0)
              + (IF 50 * f.uncertainty > wc THEN -3 ELSE 0)
              + (IF 50 * f.casual > wc THEN -3 ELSE 0)
              + (IF f.has_math THEN 2 ELSE 0)
              + (IF 100 * f.formal > wc THEN 2 ELSE 0)
              + (IF 10 * f.question_count > 3 * Max(1, f.sentence_count) THEN -2 ELSE 0)
              + (IF f.flesch_kincaid_grade > 12 THEN 1
                 ELSE IF f.flesch_kincaid_grade < 8 THEN -1 ELSE 0))

\* Mutant: the confidence of a Student verdict is ai_prob, not 1 - ai_prob.
v2_content_verdict_RawProbability(text, f) ==
  LET ai_prob == Sigmoid(v2_score(text, f))
  IN  IF ai_prob > 5000 THEN Verdict("AI", ai_prob, "content")
      ELSE Verdict("Student", ai_prob, "content")

\* The content part of calculate_speaker_probability.
v2_content_verdict(text, f) ==
  LET ai_prob == Sigmoid(v2_score(text, f))
  IN  IF ai_prob > 5000 THEN Verdict("AI", ai_prob, "content")
      ELSE Verdict("Student", 10000 - ai_prob, "content")

calculate_speaker_probability(text, f) ==
  IF AiMarkerRules("v2", text) # {}
  THEN Verdict("AI", MarkerCheckConfidence, "marker_check")
  ELSE IF StudentMarkerRules("v2", text) # {}
       THEN Verdict("Student", MarkerCheckConfidence, "marker_check")
  ELSE v2_content_verdict(text, f)

\* Mutant: the score is returned without max(0.0, min(1.0, score)).
calculate_ai_probability_Unclamped(text) ==
  LET word_count == count_words("original", text)
  IN  10
      + 4 * Cardinality(AiContentRules("original", text))
      + 6 * Cardinality(InstructorRules(text))
      - 8 * Cardinality(StudentContentRules("original", text))
      + (IF word_count > 100 THEN 2
         ELSE IF word_count > 50 THEN 1
         ELSE IF word_count < 10 THEN -2 ELSE 0)
      + (IF HasMath("original", text) THEN 3 ELSE 0)
      + (IF \E j \in 1..Len(text) : Attr("original", text[j]).instrLang THEN 2 ELSE 0)
      + Cardinality(NoiseRules(text))

\* TranscriptParser.calculate_ai_probability, in units of 0.05 (0 .. 20).
calculate_ai_probability(text) ==
  LET word_count == count_words("original", text)
      score ==
        10
        + 4 * Cardinality(AiContentRules("original", text))
        + 6 * Cardinality(InstructorRules(text))
        - 8 * Cardinality(StudentContentRules("original", text))
        + (IF word_count > 100 THEN 2
           ELSE IF word_count > 50 THEN 1
           ELSE IF word_count < 10 THEN -2 ELSE 0)
        + (IF HasMath("original", text) THEN 3 ELSE 0)
        + (IF \E j \in 1..Len(text) : Attr("original", text[j]).instrLang THEN 2 ELSE 0)
        + Cardinality(NoiseRules(text))
  IN  Max(0, Min(20, score))

\* The content branch of TranscriptParser.segment_transcript:
\* speaker = 'AI' if ai_prob > 0.5 else 'Student', confidence = abs(ai_prob - 0.5) * 2.
original_classify(text) ==
  LET ai_prob == calculate_ai_probability(text)
  IN  Verdict(IF ai_prob > 10 THEN "AI" ELSE "Student", Abs(ai_prob - 10) * 1000, "content")

\* Mutant: the AI (instructor) rules are tried before the Student rules.
detected_speaker_AiFirst(v, k) ==
  LET a == LinesOf(v)[k].raw
      student == IF v = "original" THEN a.stPat ELSE a.sMark
      ai == IF v = "original" THEN a.instPat ELSE a.aMark
  IN  IF ai # {} THEN "AI" ELSE IF student # {} THEN "Student" ELSE "None"

\* The speaker that the marker rules detect on a line: the Student rules are
\* tried first, the AI (instructor) rules only when no Student rule matched.
detected_speaker(v, k) ==
  LET a == LinesOf(v)[k].raw
      student == IF v = "original" THEN a.stPat ELSE a.sMark
      ai == IF v = "original" THEN a.instPat ELSE a.aMark
  IN  IF student # {} THEN "Student" ELSE IF ai # {} THEN "AI" ELSE "None"

\* Mutant: the flush classifies by content also when a marker opened the text.
label_AlwaysClassify(v, text, speaker, grade) ==
  CASE v = "simple" -> classify_speaker(text, grade)
    [] v = "v2" -> calculate_speaker_probability(text, extract_features(text, grade))
    [] OTHER -> original_classify(text)

\* Mutant: the marker pass uses the confidence of the classifier's marker check.
label_MarkerCheckConfidence(v, text, speaker, grade) ==
  IF speaker # "None" THEN Verdict(speaker, MarkerCheckConfidence, "marker")
  ELSE CASE v = "simple" -> classify_speaker(text, grade)
         [] v = "v2" -> calculate_speaker_probability(text, extract_features(text, grade))
         [] OTHER -> original_classify(text)

\* Role and confidence of a flushed chunk: the current speaker with the fixed
\* confidence when a marker opened it, the classifier otherwise.
label(v, text, speaker, grade) ==
  IF speaker # "None" THEN Verdict(speaker, MarkerPassConfidence, "marker")
  ELSE CASE v = "simple" -> classify_speaker(text, grade)
         [] v = "v2" -> calculate_speaker_probability(text, extract_features(text, grade))
         [] OTHER -> original_classify(text)

\* Mutant: line_start is the line after the one that opened the text.
TextSegment_StartOffByOne(v, text, verdict, first, last, path) ==
  [text |-> text, speaker |-> verdict.speaker, confidence |-> verdict.confidence,
   word_count |-> count_words(v, text), line_start |-> first + 1, line_end |-> last,
   by |-> verdict.by, path |-> path]

\* Mutant: line_end is the line of the next marker (i instead of i - 1).
TextSegment_EndOffByOne(v, text, verdict, first, last, path) ==
  [text |-> text, speaker |-> verdict.speaker, confidence |-> verdict.confidence,
   word_count |-> count_words(v, text), line_start |-> first, line_end |-> last + 1,
   by |-> verdict.by, path |-> path]

TextSegment(v, text, verdict, first, last, path) ==
  [text |-> text, speaker |-> verdict.speaker, confidence |-> verdict.confidence,
   word_count |-> count_words(v, text), line_start |-> first, line_end |-> last,
   by |-> verdict.by, path |-> path]

\* AdvancedTranscriptAnalyzer._create_segment
create_segment(text, speaker, first, last, grade) ==
  TextSegment("v2", text, label("v2", text, speaker, grade), first, last, "marker_pass")

\* Mutant: simple and original emit the chunk without testing word_count > 0.
flush_NoWordCheck(v, text, speaker, first, last, grade) ==
  IF text = <<>> THEN <<>>
  ELSE <<TextSegment(v, text, label(v, text, speaker, grade), first, last, "marker_pass")>>

\* The segments that flushing the open chunk adds: none when no chunk is
\* open; in simple and original none when the chunk has no counted word.
flush(v, text, speaker, first, last, grade) ==
  IF text = <<>> THEN <<>>
  ELSE IF v = "v2" THEN <<create_segment(text, speaker, first, last, grade)>>
  ELSE IF count_words(v, text) > 0
       THEN <<TextSegment(v, text, label(v, text, speaker, grade), first, last, "marker_pass")>>
       ELSE <<>>

\* The paragraph chunks of AdvancedTranscriptAnalyzer._segment_by_content: a
\* blank line closes the chunk only when the chunk has more than 2 lines.
RECURSIVE content_chunks(_, _, _)
content_chunks(rest, current_chunk, chunks) ==
  IF rest = <<>>
  THEN IF current_chunk # <<>> THEN Append(chunks, current_chunk) ELSE chunks
  ELSE IF ~ V2Lines[Head(rest)].blank
       THEN content_chunks(Tail(rest), Append(current_chunk, Raw(Head(rest))), chunks)
       ELSE IF current_chunk # <<>> /\ Len(current_chunk) > 2
            THEN content_chunks(Tail(rest), <<>>, Append(chunks, current_chunk))
            ELSE content_chunks(Tail(rest), current_chunk, chunks)

\* AdvancedTranscriptAnalyzer._segment_by_content
segment_by_content(ls, grade) ==
  LET chunks == content_chunks(ls, <<>>, <<>>)
  IN  [n \in 1..Len(chunks) |->
         TextSegment("v2", chunks[n],
                     calculate_speaker_probability(chunks[n], extract_features(chunks[n], grade)),
                     (n - 1) * 10, n * 10, "fallback")]

\* The single block of SmartTranscriptAnalyzer.segment_transcript when the
\* marker pass found no segment: the whole content, markers included.
single_block(ls, grade) ==
  LET content == [j \in 1..Len(ls) |-> Raw(ls[j])]
  IN  IF count_words("simple", content) > 0
      THEN <<TextSegment("simple", content, classify_speaker(content, grade),
                         0, Len(ls) - 1, "fallback")>>
      ELSE <<>>

Ratio(n, d) == [num |-> n, den |-> d]

WordsOf(segs, speaker) ==
  SeqSum([j \in 1..Len(segs) |-> IF segs[j].speaker = speaker THEN segs[j].word_count ELSE 0])

\* Mutant: the division without the total_words > 0 guard.
student_ratio_of_Unguarded(student_words, total_words) ==
  [num |-> student_words, den |-> total_words]

student_ratio_of(student_words, total_words) ==
  IF total_words > 0 THEN Ratio(student_words, total_words) ELSE Ratio(0, 1)

\* Mutant: the sum of the confidences, not divided by the segment count.
avg_confidence_Sum(segs) ==
  IF segs # <<>> THEN Ratio(SeqSum([j \in 1..Len(segs) |-> segs[j].confidence]), 1)
  ELSE Ratio(0, 1)

\* np.mean of the confidences, 0.0 for no segments (units of 1/10000).
avg_confidence(segs) ==
  IF segs # <<>> THEN Ratio(SeqSum([j \in 1..Len(segs) |-> segs[j].confidence]), Len(segs))
  ELSE Ratio(0, 1)

FewSegments(v) == IF v = "simple" THEN 2 ELSE 3

\* Mutant: the three checks as an if / elif chain, the first flag alone.
quality_flags_of_FirstOnly(v, segs, total_words) ==
  LET avg == avg_confidence(segs)
  IN  IF avg.num < 6000 * avg.den
      THEN {IF v = "simple" THEN "Low confidence" ELSE "Low confidence predictions"}
      ELSE IF total_words < 100
           THEN {IF v = "simple" THEN "Very short" ELSE "Very short transcript"}
      ELSE IF Len(segs) < FewSegments(v)
           THEN {IF v = "simple" THEN "Few segments" ELSE "Few speaker segments detected"}
      ELSE {}

quality_flags_of(v, segs, total_words) ==
  LET avg == avg_confidence(segs)
  IN  (IF avg.num < 6000 * avg.den
       THEN {IF v = "simple" THEN "Low confidence" ELSE "Low confidence predictions"} ELSE {})
      \cup (IF total_words < 100
            THEN {IF v = "simple" THEN "Very short" ELSE "Very short transcript"} ELSE {})
      \cup (IF Len(segs) < FewSegments(v)
            THEN {IF v = "simple" THEN "Few segments" ELSE "Few speaker segments detected"}
            ELSE {})

\* Mutant: total_words leaves the student words out.
Analysis_TotalWithoutStudent(v, segs) ==
  [segments |-> segs, ai_words |-> WordsOf(segs, "AI"),
   student_words |-> WordsOf(segs, "Student"), total_words |-> WordsOf(segs, "AI"),
   student_ratio |-> Ratio(0, 1), ai_ratio |-> Ratio(0, 1),
   confidence_score |-> Ratio(0, 1), quality_flags |-> {}]

\* The TranscriptAnalysis that analyze_transcript builds from the segments.
Analysis(v, segs) ==
  LET ai_words == WordsOf(segs, "AI")
      student_words == WordsOf(segs, "Student")
      total_words == ai_words + student_words
  IN  IF v = "original"
      THEN [segments |-> segs, ai_words |-> ai_words, student_words |-> student_words,
            total_words |-> total_words,
            student_ratio |-> student_ratio_of(student_words, total_words),
            ai_ratio |-> student_ratio_of(ai_words, total_words)]
      ELSE [segments |-> segs, ai_words |-> ai_words, student_words |-> student_words,
            total_words |-> total_words,
            student_ratio |-> student_ratio_of(student_words, total_words),
            confidence_score |-> avg_confidence(segs),
            quality_flags |-> quality_flags_of(v, segs, total_words)]

\* The analysis returned without segmenting: read error and empty file.
EarlyAnalysis(flag) ==
  [segments |-> <<>>, ai_words |-> 0, student_words |-> 0, total_words |-> 0,
   student_ratio |-> Ratio(0, 1), confidence_score |-> Ratio(0, 1),
   quality_flags |-> {flag}]

NoAnalysis == [segments |-> <<>>]

VARIABLES
  variant,          \* which analyzer runs
  lines,            \* content.split('\n'), as line kinds
  fk_grade,         \* what textstat returns in this run
  pc,               \* position in analyze_transcript
  i,                \* index of the next line of the marker pass, from 0
  current_chunk,    \* the open text
  current_speaker,  \* "None", "AI" or "Student"
  start_line,       \* first line of the open text
  segments,         \* the segments emitted so far
  result,           \* the returned TranscriptAnalysis
  dropped,          \* history: the line indices of the flushes that emitted nothing
  open_lines,       \* history: the indices of the lines whose text is in current_chunk
  flushed,          \* history: per flushed text its line indices and whether it was emitted
  files,            \* batch driver: the discovered files, in loop order
  idx,              \* batch driver: number of files the loop has passed
  analyses,         \* batch driver: the collected analyses
  outcomes,         \* history: per passed file "returned", "raised" or "skipped"
  driver            \* batch driver: "off", "loop", "call" or "finished"

\* The variables of main / run_cli; a single call of analyze_transcript
\* leaves them alone.
batch_vars == <<files, idx, analyses, outcomes, driver>>

\* The history of the flushes; only the marker pass writes it.
flush_vars == <<open_lines, flushed>>

vars ==
  <<variant, lines, fk_grade, pc, i, current_chunk, current_speaker, start_line,
    segments, result, dropped, open_lines, flushed, files, idx, analyses, outcomes,
    driver>>

\* The history after the open text went through "if current_chunk:".
Flushed(history, text, text_lines, emitted) ==
  IF text = <<>> THEN history
  ELSE Append(history, [lines |-> text_lines, emitted |-> emitted])

\* Transcripts of a hundred words and more: up to MaxLines marked or
\* unmarked short lines, then a long unmarked tail.
LongTranscripts ==
  {head \o [j \in 1..n |-> "plain_ai"] :
     head \in UNION {[1..m -> {"stu_q", "ai_ans", "plain_stu"}] : m \in 0..MaxLines},
     n \in (MaxLongLines - 1)..MaxLongLines}

Transcripts ==
  UNION {[1..n -> Kinds] : n \in 1..MaxLines}
  \cup UNION {[1..n -> PlainKinds] : n \in 1..MaxPlainLines}
  \cup LongTranscripts

Init ==
  /\ variant \in Variants
  /\ lines \in Transcripts
  /\ fk_grade \in (IF variant = "original" THEN {10} ELSE FleschKincaidGrades)
  /\ pc = "read"
  /\ i = 0
  /\ current_chunk = <<>>
  /\ current_speaker = "None"
  /\ start_line = 0
  /\ segments = <<>>
  /\ result = NoAnalysis
  /\ dropped = {}
  /\ open_lines = {}
  /\ flushed = <<>>
  /\ files = <<>>
  /\ idx = 0
  /\ analyses = <<>>
  /\ outcomes = <<>>
  /\ driver = "off"

\* Mutant: no try / except around open() in any variant.
ReadError_Raises ==
  /\ UNCHANGED flush_vars
  /\ UNCHANGED batch_vars
  /\ pc = "read"
  /\ pc' = "raised"
  /\ UNCHANGED <<variant, lines, fk_grade, i, current_chunk, current_speaker,
                 start_line, segments, result, dropped>>

\* open() or read() raises: simple and v2 return the error analysis, the
\* original lets the exception out of analyze_transcript.
ReadError ==
  /\ UNCHANGED flush_vars
  /\ UNCHANGED batch_vars
  /\ pc = "read"
  /\ IF variant = "original"
     THEN pc' = "raised" /\ UNCHANGED result
     ELSE pc' = "done" /\ result' = EarlyAnalysis("Read error")
  /\ UNCHANGED <<variant, lines, fk_grade, i, current_chunk, current_speaker,
                 start_line, segments, dropped>>

\* Mutant: no "not content.strip()" test, the segmenter always runs.
ReadFile_NoEmptyCheck ==
  /\ UNCHANGED batch_vars
  /\ pc = "read"
  /\ pc' = "segment"
  /\ i' = 0
  /\ current_chunk' = <<>>
  /\ current_speaker' = "None"
  /\ start_line' = 0
  /\ segments' = <<>>
  /\ dropped' = {}
  /\ open_lines' = {}
  /\ flushed' = <<>>
  /\ UNCHANGED <<variant, lines, fk_grade, result>>

\* Mutant: the emitted segments are kept on the analyzer object, a call does
\* not start from an empty list.
ReadFile_KeepsSegments ==
  /\ UNCHANGED batch_vars
  /\ pc = "read"
  /\ IF variant # "original" /\ \A j \in 1..Len(lines) : LinesOf(variant)[lines[j]].blank
     THEN /\ pc' = "empty"
          /\ UNCHANGED <<i, current_chunk, current_speaker, start_line, dropped,
                         open_lines, flushed>>
     ELSE /\ pc' = "segment"
          /\ i' = 0
          /\ current_chunk' = <<>>
          /\ current_speaker' = "None"
          /\ start_line' = 0
          /\ dropped' = {}
          /\ open_lines' = {}
          /\ flushed' = <<>>
  /\ UNCHANGED <<variant, lines, fk_grade, result, segments>>

\* The file is read; simple and v2 test "not content.strip()".  Entering the
\* segmenter sets its locals: segments = [], current_chunk = [],
\* current_speaker = None, start_line = 0.
ReadFile ==
  /\ UNCHANGED batch_vars
  /\ pc = "read"
  /\ IF variant # "original" /\ \A j \in 1..Len(lines) : LinesOf(variant)[lines[j]].blank
     THEN /\ pc' = "empty"
          /\ UNCHANGED <<i, current_chunk, current_speaker, start_line, segments, dropped,
                         open_lines, flushed>>
     ELSE /\ pc' = "segment"
          /\ i' = 0
          /\ current_chunk' = <<>>
          /\ current_speaker' = "None"
          /\ start_line' = 0
          /\ segments' = <<>>
          /\ dropped' = {}
          /\ open_lines' = {}
          /\ flushed' = <<>>
  /\ UNCHANGED <<variant, lines, fk_grade, result>>

EmptyFile ==
  /\ UNCHANGED flush_vars
  /\ UNCHANGED batch_vars
  /\ pc = "empty"
  /\ result' = EarlyAnalysis("Empty file")
  /\ pc' = "done"
  /\ UNCHANGED <<variant, lines, fk_grade, i, current_chunk, current_speaker,
                 start_line, segments, dropped>>

\* Mutant: a blank line is appended also when no text is open.
BlankLine_AlwaysAppends ==
  /\ UNCHANGED batch_vars
  /\ pc = "segment" /\ i < Len(lines)
  /\ LinesOf(variant)[lines[i + 1]].blank
  /\ current_chunk' = Append(current_chunk, Raw(lines[i + 1]))
  /\ open_lines' = open_lines \cup {i}
  /\ UNCHANGED flushed
  /\ i' = i + 1
  /\ UNCHANGED <<variant, lines, fk_grade, pc, current_speaker, start_line, segments, result, dropped>>

\* Mutant: a blank line ends the turn, the current speaker is reset to none.
BlankLine_ResetsSpeaker ==
  /\ UNCHANGED batch_vars
  /\ pc = "segment" /\ i < Len(lines)
  /\ LinesOf(variant)[lines[i + 1]].blank
  /\ current_chunk' = IF current_chunk # <<>> THEN Append(current_chunk, Raw(lines[i + 1]))
                      ELSE current_chunk
  /\ open_lines' = IF current_chunk # <<>> THEN open_lines \cup {i} ELSE open_lines
  /\ UNCHANGED flushed
  /\ current_speaker' = "None"
  /\ i' = i + 1
  /\ UNCHANGED <<variant, lines, fk_grade, pc, start_line, segments, result, dropped>>

\* Marker pass, a blank line: kept inside an open text, dropped otherwise.
BlankLine ==
  /\ UNCHANGED batch_vars
  /\ pc = "segment" /\ i < Len(lines)
  /\ LinesOf(variant)[lines[i + 1]].blank
  /\ current_chunk' = IF current_chunk # <<>> THEN Append(current_chunk, Raw(lines[i + 1]))
                      ELSE current_chunk
  /\ open_lines' = IF current_chunk # <<>> THEN open_lines \cup {i} ELSE open_lines
  /\ UNCHANGED flushed
  /\ i' = i + 1
  /\ UNCHANGED <<variant, lines, fk_grade, pc, current_speaker, start_line, segments, result, dropped>>

\* Mutant: every marker line closes the open text, also a marker of the
\* current speaker.
SpeakerChange_AnyMarker ==
  /\ UNCHANGED batch_vars
  /\ pc = "segment" /\ i < Len(lines)
  /\ ~ LinesOf(variant)[lines[i + 1]].blank
  /\ detected_speaker(variant, lines[i + 1]) # "None"
  /\ segments' = segments \o flush(variant, current_chunk, current_speaker, start_line,
                                   i - 1, fk_grade)
  /\ current_chunk' = IF LinesOf(variant)[lines[i + 1]].clean_empty THEN <<>>
                      ELSE <<Clean(lines[i + 1])>>
  /\ current_speaker' = detected_speaker(variant, lines[i + 1])
  /\ start_line' = i
  /\ dropped' = IF segments' = segments THEN dropped \cup (start_line .. i - 1) ELSE dropped
  /\ flushed' = Flushed(flushed, current_chunk, open_lines, segments' # segments)
  /\ open_lines' = IF LinesOf(variant)[lines[i + 1]].clean_empty THEN {} ELSE {i}
  /\ i' = i + 1
  /\ UNCHANGED <<variant, lines, fk_grade, pc, result>>

\* Marker pass, a line whose marker names another speaker than the current
\* one: the open text is flushed and a new one starts with the stripped line.
SpeakerChange ==
  /\ UNCHANGED batch_vars
  /\ pc = "segment" /\ i < Len(lines)
  /\ ~ LinesOf(variant)[lines[i + 1]].blank
  /\ detected_speaker(variant, lines[i + 1]) # "None"
  /\ detected_speaker(variant, lines[i + 1]) # current_speaker
  /\ segments' = segments \o flush(variant, current_chunk, current_speaker, start_line,
                                   i - 1, fk_grade)
  /\ current_chunk' = IF LinesOf(variant)[lines[i + 1]].clean_empty THEN <<>>
                      ELSE <<Clean(lines[i + 1])>>
  /\ current_speaker' = detected_speaker(variant, lines[i + 1])
  /\ start_line' = i
  /\ dropped' = IF segments' = segments THEN dropped \cup (start_line .. i - 1) ELSE dropped
  /\ flushed' = Flushed(flushed, current_chunk, open_lines, segments' # segments)
  /\ open_lines' = IF LinesOf(variant)[lines[i + 1]].clean_empty THEN {} ELSE {i}
  /\ i' = i + 1
  /\ UNCHANGED <<variant, lines, fk_grade, pc, result>>

\* Mutant: an appended line moves the start of the open text to itself.
ContinueSegment_MovesStart ==
  /\ UNCHANGED batch_vars
  /\ pc = "segment" /\ i < Len(lines)
  /\ ~ LinesOf(variant)[lines[i + 1]].blank
  /\ \/ detected_speaker(variant, lines[i + 1]) = "None"
     \/ detected_speaker(variant, lines[i + 1]) = current_speaker
  /\ current_chunk' = Append(current_chunk, Raw(lines[i + 1]))
  /\ open_lines' = open_lines \cup {i}
  /\ UNCHANGED flushed
  /\ start_line' = i
  /\ i' = i + 1
  /\ UNCHANGED <<variant, lines, fk_grade, pc, current_speaker, segments, result, dropped>>

\* Marker pass, any other line: appended as it is.
ContinueSegment ==
  /\ UNCHANGED batch_vars
  /\ pc = "segment" /\ i < Len(lines)
  /\ ~ LinesOf(variant)[lines[i + 1]].blank
  /\ \/ detected_speaker(variant, lines[i + 1]) = "None"
     \/ detected_speaker(variant, lines[i + 1]) = current_speaker
  /\ current_chunk' = Append(current_chunk, Raw(lines[i + 1]))
  /\ open_lines' = open_lines \cup {i}
  /\ UNCHANGED flushed
  /\ i' = i + 1
  /\ UNCHANGED <<variant, lines, fk_grade, pc, current_speaker, start_line, segments, result, dropped>>

\* Mutant: the text that is open at the end of the input is forgotten.
FinalSegment_NoFlush ==
  /\ UNCHANGED batch_vars
  /\ pc = "segment" /\ i = Len(lines)
  /\ pc' = IF variant # "original" /\ segments = <<>> THEN "fallback" ELSE "aggregate"
  /\ UNCHANGED <<variant, lines, fk_grade, i, current_chunk, current_speaker, start_line,
                 segments, result, dropped, open_lines, flushed>>

\* End of the marker pass: the open text is flushed.  simple and v2 go on to
\* the fallback when no segment was emitted.
FinalSegment ==
  /\ UNCHANGED batch_vars
  /\ pc = "segment" /\ i = Len(lines)
  /\ segments' = segments \o flush(variant, current_chunk, current_speaker, start_line,
                                   Len(lines) - 1, fk_grade)
  /\ dropped' = IF segments' = segments THEN dropped \cup (start_line .. Len(lines) - 1)
                ELSE dropped
  /\ flushed' = Flushed(flushed, current_chunk, open_lines, segments' # segments)
  /\ UNCHANGED open_lines
  /\ pc' = IF variant # "original" /\ segments' = <<>> THEN "fallback" ELSE "aggregate"
  /\ UNCHANGED <<variant, lines, fk_grade, i, current_chunk, current_speaker, start_line,
                 result>>

\* No segment from the marker pass: the single block of simple, the
\* paragraph chunks of v2.
Fallback ==
  /\ UNCHANGED flush_vars
  /\ UNCHANGED batch_vars
  /\ pc = "fallback"
  /\ segments' = IF variant = "simple" THEN single_block(lines, fk_grade)
                 ELSE segment_by_content(lines, fk_grade)
  /\ pc' = "aggregate"
  /\ UNCHANGED <<variant, lines, fk_grade, i, current_chunk, current_speaker, start_line,
                 result, dropped>>

\* The statistics and quality flags of analyze_transcript.
Aggregate ==
  /\ UNCHANGED flush_vars
  /\ UNCHANGED batch_vars
  /\ pc = "aggregate"
  /\ result' = Analysis(variant, segments)
  /\ pc' = "done"
  /\ UNCHANGED <<variant, lines, fk_grade, i, current_chunk, current_speaker, start_line,
                 segments, dropped>>

Next ==
  \/ ReadError
  \/ ReadFile
  \/ EmptyFile
  \/ BlankLine
  \/ SpeakerChange
  \/ ContinueSegment
  \/ FinalSegment
  \/ Fallback
  \/ Aggregate

Spec == Init /\ [][Next]_vars

(***************************************************************************)
(* The batch drivers: main of simple and original, run_cli of v2.  One     *)
(* analyzer object analyzes the discovered files one after the other; the  *)
(* actions of analyze_transcript above run between CallAnalyze and         *)
(* Collect / CatchError.                                                   *)
(***************************************************************************)

\* The file contents of the batch model: a transcript with unmarked text, a
\* blank line and a marker line; a marker-only line; a blank file.
BatchContents ==
  { <<"plain_stu", "blank", "ai_ans">>, <<"stu_only">>, <<"blank">> }

\* simple discovers *.txt; v2 and the original also *.docx.
Extensions(v) == IF v = "simple" THEN {"txt"} ELSE {"txt", "docx"}

DiscoveredFiles(v) ==
  UNION {[1..n -> [content : BatchContents, ext : Extensions(v)]] : n \in 1..MaxFiles}

BatchInit ==
  /\ variant \in Variants
  /\ files \in DiscoveredFiles(variant)
  /\ fk_grade \in (IF variant = "original" THEN {10} ELSE FleschKincaidGrades)
  /\ driver = "loop"
  /\ idx = 0
  /\ analyses = <<>>
  /\ outcomes = <<>>
  /\ pc = "idle"
  /\ lines = <<>>
  /\ i = 0
  /\ current_chunk = <<>>
  /\ current_speaker = "None"
  /\ start_line = 0
  /\ segments = <<>>
  /\ result = NoAnalysis
  /\ dropped = {}
  /\ open_lines = {}
  /\ flushed = <<>>

\* The loop body calls analyze_transcript on the next file; the original
\* only under "if ext == '.txt'".
CallAnalyze ==
  /\ UNCHANGED flush_vars
  /\ driver = "loop" /\ idx < Len(files)
  /\ variant = "original" => files[idx + 1].ext = "txt"
  /\ driver' = "call"
  /\ lines' = files[idx + 1].content
  /\ pc' = "read"
  /\ UNCHANGED <<variant, fk_grade, i, current_chunk, current_speaker, start_line,
                 segments, result, dropped, files, idx, analyses, outcomes>>

\* The original passes a file of another extension without analyzing it.
SkipFile ==
  /\ UNCHANGED flush_vars
  /\ driver = "loop" /\ idx < Len(files)
  /\ variant = "original" /\ files[idx + 1].ext # "txt"
  /\ idx' = idx + 1
  /\ outcomes' = Append(outcomes, "skipped")
  /\ UNCHANGED <<variant, lines, fk_grade, pc, i, current_chunk, current_speaker,
                 start_line, segments, result, dropped, files, analyses, driver>>

\* analyze_transcript has returned: analyses.append(analysis).
Collect ==
  /\ UNCHANGED flush_vars
  /\ driver = "call" /\ pc = "done"
  /\ analyses' = Append(analyses, [file |-> idx + 1, analysis |-> result])
  /\ outcomes' = Append(outcomes, "returned")
  /\ idx' = idx + 1
  /\ driver' = "loop"
  /\ pc' = "idle"
  /\ UNCHANGED <<variant, lines, fk_grade, i, current_chunk, current_speaker,
                 start_line, segments, result, dropped, files>>

\* Mutant: main of the original without its try / except, the exception
\* ends the loop.
CatchError_NoTry ==
  /\ UNCHANGED flush_vars
  /\ driver = "call" /\ pc = "raised"
  /\ driver' = "crashed"
  /\ UNCHANGED <<variant, lines, fk_grade, pc, i, current_chunk, current_speaker,
                 start_line, segments, result, dropped, files, idx, analyses, outcomes>>

\* analyze_transcript of the original has raised: the except clause of main
\* prints the error and the loop goes on.
CatchError ==
  /\ UNCHANGED flush_vars
  /\ driver = "call" /\ pc = "raised"
  /\ outcomes' = Append(outcomes, "raised")
  /\ idx' = idx + 1
  /\ driver' = "loop"
  /\ pc' = "idle"
  /\ UNCHANGED <<variant, lines, fk_grade, i, current_chunk, current_speaker,
                 start_line, segments, result, dropped, files, analyses>>

\* The loop is over; the collected analyses go to the report writers.
FinishBatch ==
  /\ UNCHANGED flush_vars
  /\ driver = "loop" /\ idx = Len(files)
  /\ driver' = "finished"
  /\ UNCHANGED <<variant, lines, fk_grade, pc, i, current_chunk, current_speaker,
                 start_line, segments, result, dropped, files, idx, analyses, outcomes>>

BatchNext ==
  \/ CallAnalyze
  \/ SkipFile
  \/ Collect
  \/ CatchError
  \/ FinishBatch
  \/ ReadError
  \/ ReadFile
  \/ EmptyFile
  \/ BlankLine
  \/ SpeakerChange
  \/ ContinueSegment
  \/ FinalSegment
  \/ Fallback
  \/ Aggregate

BatchSpec == BatchInit /\ [][BatchNext]_vars



(***************************************************************************)
(* Properties.                                                             *)
(***************************************************************************)

\* The segmenter has returned: its segments are the output of
\* segment_transcript / smart_segment_transcript.
SegmenterReturned == pc = "aggregate"

\* The marker pass is over and the segments are its own (none, or not
\* replaced by the fallback).
MarkerPassOutput ==
  /\ pc \in {"fallback", "aggregate"}
  /\ \A j \in 1..Len(segments) : segments[j].path = "marker_pass"

FallbackOutput ==
  /\ pc = "aggregate"
  /\ segments # <<>>
  /\ \A j \in 1..Len(segments) : segments[j].path = "fallback"

\* The segments whose [line_start, line_end] range holds line n.
Covering(segs, n) ==
  {j \in 1..Len(segs) : segs[j].line_start <= n /\ n <= segs[j].line_end}

\* The segment was opened by a line that carries an explicit marker.
MarkerOpened(seg) ==
  /\ seg.path = "marker_pass"
  /\ detected_speaker(variant, lines[seg.line_start + 1]) # "None"

\* The segment comes from the fallback and the classifier's marker check
\* fires on its text.
MarkerChecked(seg) ==
  /\ seg.path = "fallback"
  /\ AiMarkerRules(variant, seg.text) \cup StudentMarkerRules(variant, seg.text) # {}

\* C1: every returned TranscriptAnalysis (all variants, the empty-file and
\* read-error results included) has ai_words + student_words = total_words.
C1_WordTotals ==
  pc = "done" => result.ai_words + result.student_words = result.total_words

C1_Witness ==
  pc = "done" /\ result.ai_words > 0 /\ result.student_words > 0

\* C2: in every returned analysis student_ratio is student_words / total_words
\* when total_words > 0 and 0 when total_words = 0; it lies in [0, 1] and its
\* denominator is never 0.
C2_StudentRatio ==
  pc = "done" =>
    /\ result.student_ratio.den > 0
    /\ result.total_words > 0 =>
         result.student_ratio.num * result.total_words
           = result.student_words * result.student_ratio.den
    /\ result.total_words = 0 => result.student_ratio.num = 0
    /\ 0 <= result.student_ratio.num
    /\ result.student_ratio.num <= result.student_ratio.den

C2_Witness ==
  /\ pc = "done"
  /\ 0 < result.student_words
  /\ result.student_words < result.total_words

\* C3 as stated: every line index of the transcript is covered by exactly one
\* segment of the segmenter's output (here for an output of at least one
\* segment).
C3_EveryLineCoveredOnce ==
  SegmenterReturned /\ segments # <<>> =>
    \A n \in 0..(Len(lines) - 1) : Cardinality(Covering(segments, n)) = 1

\* C3 as amended: after the marker pass a line index is covered by exactly
\* one segment, or by none when it lies in the span of a flush that emitted
\* nothing, and such a line adds no counted word; the single block of the
\* simple fallback covers every line once; chunk n of the v2 fallback has the
\* range [10 (n - 1), 10 n].
C3_CoveredOnceOrDropped ==
  /\ MarkerPassOutput =>
       \A n \in 0..(Len(lines) - 1) :
         /\ Cardinality(Covering(segments, n)) = IF n \in dropped THEN 0 ELSE 1
         /\ n \in dropped => LinesOf(variant)[lines[n + 1]].clean.words = 0
  /\ FallbackOutput /\ variant = "simple" =>
       \A n \in 0..(Len(lines) - 1) : Cardinality(Covering(segments, n)) = 1
  /\ FallbackOutput /\ variant = "v2" =>
       \A j \in 1..Len(segments) :
         segments[j].line_start = 10 * (j - 1) /\ segments[j].line_end = 10 * j

C3_Witness ==
  /\ MarkerPassOutput
  /\ segments # <<>>
  /\ dropped # {}
  /\ \E n \in dropped : ~ LinesOf(variant)[lines[n + 1]].blank

C5_MarkerOverridesContent ==
  \A j \in 1..Len(segments) :
    /\ MarkerOpened(segments[j]) =>
         segments[j].speaker = detected_speaker(variant, lines[segments[j].line_start + 1])
    /\ MarkerChecked(segments[j]) => segments[j].by = "marker_check"

C5_Witness ==
  \E j \in 1..Len(segments) :
    /\ MarkerOpened(segments[j])
    /\ Len(segments[j].text) > 1
    /\ label(variant, segments[j].text, "None", fk_grade).speaker # segments[j].speaker

\* C6: every segment has a confidence in [0, 1], labelled by a marker or
\* classified by content, in all three variants.
C6_ConfidenceInUnitInterval ==
  \A j \in 1..Len(segments) :
    0 <= segments[j].confidence /\ segments[j].confidence <= 10000

C6_Witness ==
  \E j \in 1..Len(segments) :
    /\ variant = "original"
    /\ segments[j].by = "content"
    /\ segments[j].confidence = 10000

\* C7 as stated: every segment whose role an explicit marker set has one and
\* the same confidence, that of the marker pass, also on the fallback path
\* when the classifier's marker check fires.
C7_OneMarkerConstant ==
  \A j \in 1..Len(segments) :
    MarkerOpened(segments[j]) \/ MarkerChecked(segments[j]) =>
      segments[j].confidence = MarkerPassConfidence

\* C7 as amended: a segment that a marker line opened has confidence 0.9 in
\* either flush of the marker pass, whatever its text; a fallback segment on
\* whose text the classifier's marker check fires has confidence 0.95.
C7_TwoMarkerConstants ==
  \A j \in 1..Len(segments) :
    /\ MarkerOpened(segments[j]) => segments[j].confidence = 9000
    /\ MarkerChecked(segments[j]) => segments[j].confidence = 9500

C7_Witness ==
  \E j \in 1..Len(segments) :
    MarkerChecked(segments[j]) /\ segments[j].confidence = 9500

\* Two single-line turns: a Student marker line, then an AI marker line.
TwoTurns ==
  /\ Len(lines) = 2
  /\ detected_speaker(variant, lines[1]) = "Student"
  /\ detected_speaker(variant, lines[2]) = "AI"

StrippedWords(n) == count_words(variant, <<Clean(lines[n])>>)

TwoSegmentsInOrder ==
  /\ Len(result.segments) = 2
  /\ result.segments[1].speaker = "Student"
  /\ result.segments[2].speaker = "AI"
  /\ result.segments[1].word_count = StrippedWords(1)
  /\ result.segments[2].word_count = StrippedWords(2)

Scenario == lines = <<"stu_q", "ai_ans">>

\* C8 as stated: two single-line turns, Student marker then AI marker, give
\* two segments Student then AI with the word counts of the stripped texts;
\* "Student: What is 2+2?\nAI: The answer is 4." gives word counts 4 and 4
\* and student_ratio 0.5.
C8_TwoTurnsFourWordsEach ==
  pc = "done" /\ i > 0 =>
    /\ TwoTurns => TwoSegmentsInOrder
    /\ Scenario =>
         /\ Len(result.segments) = 2
         /\ result.segments[1].speaker = "Student" /\ result.segments[1].word_count = 4
         /\ result.segments[2].speaker = "AI" /\ result.segments[2].word_count = 4
         /\ 2 * result.student_ratio.num = result.student_ratio.den

\* C8 as amended: two single-line turns, Student marker then AI marker, whose
\* stripped texts each have a counted word give two segments Student then AI
\* with the variant's word counts of the stripped texts; the scenario gives 2
\* and 3 words and ratio 2/5 in simple, 3 and 4 words and ratio 3/7 in v2,
\* and in the original, where "AI:" is no marker, one Student segment of 6
\* words and ratio 1.
C8_TwoTurnsCountedWords ==
  pc = "done" /\ i > 0 =>
    /\ TwoTurns /\ StrippedWords(1) > 0 /\ StrippedWords(2) > 0 => TwoSegmentsInOrder
    /\ Scenario /\ variant = "simple" =>
         /\ TwoSegmentsInOrder
         /\ result.segments[1].word_count = 2 /\ result.segments[2].word_count = 3
         /\ 5 * result.student_ratio.num = 2 * result.student_ratio.den
    /\ Scenario /\ variant = "v2" =>
         /\ TwoSegmentsInOrder
         /\ result.segments[1].word_count = 3 /\ result.segments[2].word_count = 4
         /\ 7 * result.student_ratio.num = 3 * result.student_ratio.den
    /\ Scenario /\ variant = "original" =>
         /\ Len(result.segments) = 1
         /\ result.segments[1].speaker = "Student" /\ result.segments[1].word_count = 6
         /\ result.student_ratio.num = result.student_ratio.den

C8_Witness ==
  pc = "done" /\ Scenario /\ variant = "v2" /\ Len(result.segments) = 2

\* not content.strip()
EmptyContent == \A j \in 1..Len(lines) : LinesOf(variant)[lines[j]].blank

\* C9: simple and v2 on empty or whitespace-only content return zero
\* segments, zero totals, student_ratio 0, confidence_score 0 and the flag
\* "Empty file", raise nothing, and do not run the segmenter.
C9_EmptyFile ==
  /\ variant # "original" => pc # "raised"
  /\ pc = "done" /\ variant # "original" /\ EmptyContent
       /\ "Read error" \notin result.quality_flags =>
         /\ result.segments = <<>>
         /\ result.ai_words = 0 /\ result.student_words = 0 /\ result.total_words = 0
         /\ result.student_ratio.num = 0
         /\ result.confidence_score.num = 0
         /\ result.quality_flags = {"Empty file"}
         /\ i = 0 /\ segments = <<>>

C9_Witness ==
  /\ pc = "done" /\ variant = "v2" /\ EmptyContent /\ Len(lines) = 2
  /\ result.quality_flags = {"Empty file"}

\* The only non-blank lines are lines that consist of a marker alone.
OnlyMarkerLines ==
  /\ ~ EmptyContent
  /\ \A j \in 1..Len(lines) :
       \/ LinesOf(variant)[lines[j]].blank
       \/ /\ detected_speaker(variant, lines[j]) # "None"
          /\ LinesOf(variant)[lines[j]].clean_empty

\* No marker-only line repeats the speaker of the marker-only line before it.
MarkersAlternate ==
  \A j, k \in 1..Len(lines) :
    /\ j < k
    /\ ~ LinesOf(variant)[lines[j]].blank /\ ~ LinesOf(variant)[lines[k]].blank
    /\ \A m \in (j + 1)..(k - 1) : LinesOf(variant)[lines[m]].blank
    => detected_speaker(variant, lines[j]) # detected_speaker(variant, lines[k])

\* C10 as stated: no output segment has zero words, and a transcript whose
\* only non-blank lines are marker-only lines yields no segment.
C10_MarkerOnlyYieldsNothing ==
  /\ \A j \in 1..Len(segments) : segments[j].word_count > 0
  /\ SegmenterReturned /\ OnlyMarkerLines => segments = <<>>

\* C10 as amended: no output segment has zero words; on a transcript of
\* marker-only lines with alternating speakers the marker pass emits nothing,
\* so the original returns no segment, while simple and v2 then return the
\* fallback segments built from the raw content, markers included.
C10_MarkerOnlyFallsBack ==
  /\ \A j \in 1..Len(segments) : segments[j].word_count > 0
  /\ OnlyMarkerLines /\ MarkersAlternate =>
       /\ pc = "segment" => segments = <<>>
       /\ SegmenterReturned /\ variant = "original" => segments = <<>>
       /\ SegmenterReturned /\ variant # "original" =>
            /\ FallbackOutput
            /\ \A j \in 1..Len(segments) :
                 /\ segments[j].by = "marker_check"
                 /\ segments[j].word_count
                      = count_words(variant, segments[j].text)

C10_Witness ==
  /\ SegmenterReturned /\ variant = "simple"
  /\ OnlyMarkerLines /\ MarkersAlternate /\ Len(lines) = 3
  /\ \A j \in 1..Len(lines) : ~ LinesOf(variant)[lines[j]].blank
  /\ segments # <<>>

\* The line carries an explicit marker that the segmenter detects.
HasMarker(k) == detected_speaker(variant, k) # "None"

NoMarkerAnywhere == \A j \in 1..Len(lines) : ~ HasMarker(lines[j])

NonEmptyContent == \E j \in 1..Len(lines) : ~ LinesOf(variant)[lines[j]].blank

\* C11 as stated: for a non-empty transcript with no explicit marker on any
\* line the marker pass of v2 emits no segment, every returned
\* segment comes from the fallback, and v2 returns the paragraph chunks of
\* _segment_by_content.
C11_UnmarkedUsesFallback ==
  /\ variant = "v2" /\ NoMarkerAnywhere /\ NonEmptyContent /\ pc = "fallback"
       => segments = <<>>
  /\ variant = "v2" /\ NoMarkerAnywhere /\ NonEmptyContent /\ SegmenterReturned
       => /\ \A j \in 1..Len(segments) : segments[j].path = "fallback"
          /\ segments = segment_by_content(lines, fk_grade)

\* The collected analysis comes from a file that was read (the original
\* collects no analysis of a file it could not read).
ReadOk(a) == variant # "original" => "Read error" \notin a.analysis.quality_flags

\* C12: one analyzer object analyzing a batch returns, for two files of
\* identical content that were both read, identical analyses (segments with
\* their texts, roles, confidences and line ranges, word totals, ratio, mean
\* confidence, flags), whichever files it analyzed before and between them.
C12_Deterministic ==
  \A a, b \in 1..Len(analyses) :
    /\ files[analyses[a].file].content = files[analyses[b].file].content
    /\ ReadOk(analyses[a]) /\ ReadOk(analyses[b])
    => analyses[a].analysis = analyses[b].analysis

\* The same two-turn content analyzed first and third, a file of another
\* content analyzed in between.
C12_Witness ==
  /\ Len(analyses) = 3
  /\ analyses[1].file = 1 /\ analyses[3].file = 3
  /\ files[1].content = files[3].content
  /\ files[2].content # files[1].content
  /\ \A a \in 1..3 : ReadOk(analyses[a])
  /\ Len(analyses[3].analysis.segments) = 2
  /\ analyses[2].analysis.segments # <<>>

\* The analysis that analyze_transcript returns after a failed read.
ReadErrorAnalysis(a) ==
  /\ a.segments = <<>>
  /\ a.ai_words = 0 /\ a.student_words = 0 /\ a.total_words = 0
  /\ a.student_ratio.num = 0
  /\ a.quality_flags = {"Read error"}
  /\ "Empty file" \notin a.quality_flags

\* C13 as stated: in all three variants a failed read makes
\* analyze_transcript return, never raise, an analysis with zero segments,
\* zero word totals, student_ratio 0 and a read-failure flag that is not the
\* "Empty file" flag.
C13_ReadFailureReturns ==
  /\ pc # "raised"
  /\ pc = "done" /\ i = 0 /\ segments = <<>> /\ "Empty file" \notin result.quality_flags
       => ReadErrorAnalysis(result)

\* C13 as amended: analyze_transcript of simple and v2 never raises on a
\* failed read and returns that analysis; the one of the original raises and
\* returns nothing.
C13_ReadFailureBySimpleAndV2 ==
  /\ pc = "raised" => variant = "original" /\ result = NoAnalysis
  /\ variant # "original" /\ pc = "done" /\ "Read error" \in result.quality_flags
       => ReadErrorAnalysis(result) /\ i = 0 /\ segments = <<>>

C13_Witness ==
  /\ variant = "v2" /\ pc = "done"
  /\ result.quality_flags = {"Read error"}
  /\ \E j \in 1..Len(lines) : ~ LinesOf(variant)[lines[j]].blank

\* The collected analyses of file k.
AnalysesOf(k) == {a \in 1..Len(analyses) : analyses[a].file = k}

\* analyze_transcript was called on file k.
Analyzed(k) == outcomes[k] \in {"returned", "raised"}

\* The call on file k failed: the original raised, simple and v2 returned
\* the read-error analysis.
FailedFile(k) ==
  \/ outcomes[k] = "raised"
  \/ /\ outcomes[k] = "returned"
     /\ \E a \in AnalysesOf(k) : ~ ReadOk(analyses[a])

DriverStep == CallAnalyze \/ SkipFile \/ Collect \/ CatchError \/ FinishBatch

Adjacent(j) == segments[j + 1].line_start = segments[j].line_end + 1

\* C15 as stated: in the output of the marker pass no two consecutive
\* segments have the same role.
C15_NeighboursDiffer ==
  MarkerPassOutput =>
    \A j \in 1..(Len(segments) - 1) : segments[j].speaker # segments[j + 1].speaker

\* C15 as amended: two consecutive segments of the marker pass have
\* different roles when the first was opened by a marker line and the second
\* starts on the next line; two consecutive segments of the same role are
\* either separated by lines whose flush emitted nothing, or the first of
\* them is the content-classified text before the first marker.
C15_AdjacentMarkerSegmentsDiffer ==
  MarkerPassOutput =>
    \A j \in 1..(Len(segments) - 1) :
      /\ MarkerOpened(segments[j]) /\ Adjacent(j)
           => segments[j].speaker # segments[j + 1].speaker
      /\ segments[j].speaker = segments[j + 1].speaker /\ ~ Adjacent(j)
           => /\ segments[j].line_end + 1 < segments[j + 1].line_start
              /\ \A n \in (segments[j].line_end + 1)..(segments[j + 1].line_start - 1) :
                   n \in dropped
      /\ segments[j].speaker = segments[j + 1].speaker /\ Adjacent(j)
           => j = 1 /\ segments[j].by = "content"

\* Three marker-opened segments on consecutive lines.
C15_Witness ==
  /\ MarkerPassOutput
  /\ Len(segments) = 3
  /\ \A j \in 1..3 : MarkerOpened(segments[j])
  /\ Adjacent(1) /\ Adjacent(2)

\* The marker pass is about to process line i.
AtLine == pc = "segment" /\ i < Len(lines)

\* Line i is non-blank and carries a marker of another role than the
\* current speaker ("None" at the start).
MarkerOfOtherSpeaker ==
  /\ ~ LinesOf(variant)[lines[i + 1]].blank
  /\ detected_speaker(variant, lines[i + 1]) # "None"
  /\ detected_speaker(variant, lines[i + 1]) # current_speaker

\* The step starts a new segment at line i: the speaker changes to the
\* detected one, the start index becomes i and the open text is the
\* stripped line alone (nothing when the stripped line is empty).
StartsSegment ==
  /\ current_speaker' # current_speaker
  /\ current_speaker' = detected_speaker(variant, lines[i + 1])
  /\ start_line' = i
  /\ current_chunk' = IF LinesOf(variant)[lines[i + 1]].clean_empty THEN <<>>
                      ELSE <<Clean(lines[i + 1])>>

\* C16: a step of the marker pass on line i starts a new segment if and only
\* if line i is non-blank and carries a marker whose role differs from the
\* current speaker; any other non-blank line is appended as it is to the
\* open text and changes neither the current speaker nor the start index
\* nor the emitted segments.
C16_NewSegmentIffOtherSpeaker ==
  [][AtLine =>
       /\ StartsSegment <=> MarkerOfOtherSpeaker
       /\ ~ LinesOf(variant)[lines[i + 1]].blank /\ ~ MarkerOfOtherSpeaker
            => /\ current_chunk' = Append(current_chunk, Raw(lines[i + 1]))
               /\ current_speaker' = current_speaker
               /\ start_line' = start_line
               /\ segments' = segments]_vars

\* A marker line of the current speaker was appended to the text that the
\* first marker line opened.
C16_Witness ==
  /\ pc = "segment" /\ i = 2
  /\ HasMarker(lines[1]) /\ HasMarker(lines[2])
  /\ current_speaker = detected_speaker(variant, lines[2])
  /\ start_line = 0
  /\ current_chunk = <<Clean(lines[1]), Raw(lines[2])>>
  /\ segments = <<>>

\* The flushes whose text holds the text of line n.
FlushesOf(n) == {f \in 1..Len(flushed) : n \in flushed[f].lines}

\* The text that was open when the input ended is emitted by the final
\* flush: it is non-empty and, in simple and original, has a counted word.
FinalTextEmitted ==
  /\ current_chunk # <<>>
  /\ variant = "v2" \/ count_words(variant, current_chunk) > 0

C18_BlankLineKeepsSegment ==
  [][AtLine /\ LinesOf(variant)[lines[i + 1]].blank =>
       /\ segments' = segments
       /\ current_speaker' = current_speaker
       /\ start_line' = start_line
       /\ current_chunk' = IF current_chunk # <<>>
                           THEN Append(current_chunk, Raw(lines[i + 1]))
                           ELSE <<>>
       /\ i' = i + 1]_vars

\* The blank first line was dropped, the blank third line was appended to
\* the text that the second line opened.
C18_Witness ==
  /\ pc = "segment" /\ i = 3
  /\ LinesOf(variant)[lines[1]].blank /\ LinesOf(variant)[lines[3]].blank
  /\ HasMarker(lines[2])
  /\ current_chunk = <<Clean(lines[2]), Raw(lines[3])>>
  /\ start_line = 1
  /\ segments = <<>>

\* The marker rules that match line k, each with what the line is after
\* that rule alone has stripped its prefix.
Matches(k) == LinesOf(variant)[k].matches

\* The declared order: the Student list before the AI (instructor) list,
\* inside a list by position.
DeclaredBefore(m, q) ==
  \/ m.role = "Student" /\ q.role = "AI"
  \/ m.role = q.role /\ m.rule < q.rule

EarliestMatch(k) ==
  CHOOSE m \in Matches(k) : \A q \in Matches(k) \ {m} : DeclaredBefore(m, q)

\* C19: when the marker pass has just opened a text at a marker line, the
\* current speaker is the role of the earliest matching rule in the declared
\* order, and the open text is the line as that rule alone strips it (no
\* text when nothing is left), whatever later rules match the line.
C19_EarliestRuleWins ==
  pc = "segment" /\ i >= 1 /\ start_line = i - 1 /\ Matches(lines[i]) # {} =>
    /\ current_speaker = EarliestMatch(lines[i]).role
    /\ LinesOf(variant)[lines[i]].clean_text = EarliestMatch(lines[i]).rest
    /\ current_chunk = IF EarliestMatch(lines[i]).rest = "" THEN <<>>
                       ELSE <<Clean(lines[i])>>

\* A line that a Student rule and an AI rule match has opened a text.
C19_Witness ==
  /\ pc = "segment" /\ i = 2 /\ start_line = 1
  /\ \E m, q \in Matches(lines[2]) : m.role = "Student" /\ q.role = "AI"
  /\ current_speaker = "Student"
  /\ current_chunk = <<Clean(lines[2])>>
  /\ Len(segments) = 1

\* What content-based scoring alone gives for the text of a segment.
ContentVerdictOf(seg) ==
  IF variant = "simple" THEN simple_content_verdict(seg.text, fk_grade)
  ELSE v2_content_verdict(seg.text, extract_features(seg.text, fk_grade))

\* What the classifier's check of the explicit markers gives for a text on
\* which a marker rule fires: simple looks at the Student rules first, v2 at
\* the AI rules first.
MarkerCheckRole(seg) ==
  IF variant = "simple"
  THEN IF StudentMarkerRules("simple", seg.text) # {} THEN "Student" ELSE "AI"
  ELSE IF AiMarkerRules("v2", seg.text) # {} THEN "AI" ELSE "Student"

\* C20 as stated: every segment of the fallback (single block of simple,
\* paragraph chunk of v2) has the role and the confidence that content-based
\* scoring alone gives for its text.
C20_FallbackByContentAlone ==
  FallbackOutput =>
    \A j \in 1..Len(segments) :
      /\ segments[j].speaker = ContentVerdictOf(segments[j]).speaker
      /\ segments[j].confidence = ContentVerdictOf(segments[j]).confidence

\* C20 as amended: the classifier that labels a fallback segment checks the
\* explicit markers first, and on every fallback segment that check fires:
\* the segment has the role of the marker check and the confidence 0.95, not
\* a content score.
C20_FallbackByMarkerCheck ==
  FallbackOutput =>
    \A j \in 1..Len(segments) :
      /\ MarkerChecked(segments[j])
      /\ segments[j].by = "marker_check"
      /\ segments[j].speaker = MarkerCheckRole(segments[j])
      /\ segments[j].confidence = MarkerCheckConfidence

\* A v2 fallback chunk that holds a Student marker and an AI marker is AI by
\* the marker check, while its content alone scores differently.
C20_Witness ==
  /\ FallbackOutput /\ variant = "v2"
  /\ StudentMarkerRules("v2", segments[1].text) # {}
  /\ AiMarkerRules("v2", segments[1].text) # {}
  /\ segments[1].speaker = "AI"
  /\ segments[1].confidence = MarkerCheckConfidence
  /\ ContentVerdictOf(segments[1]).confidence # MarkerCheckConfidence

\* The segment was classified by content: it is the text before the first
\* marker line, flushed with no current speaker, and no explicit marker is
\* found in it.
ContentClassified(seg) == seg.by = "content"

\* ai_probability of the segment's text, in units of 1/10000 (the original's
\* clamped score is in units of 0.05).
AiProbabilityOf(seg) ==
  CASE variant = "simple" -> Sigmoid(simple_score(seg.text, fk_grade))
    [] variant = "v2" -> Sigmoid(v2_score(seg.text, extract_features(seg.text, fk_grade)))
    [] OTHER -> 500 * calculate_ai_probability(seg.text)

\* C21: every content-classified segment is AI exactly when ai_probability
\* is above 0.5 and Student otherwise; on a tie (a net score of zero in
\* simple and v2) it is Student.
C21_TieIsStudent ==
  \A j \in 1..Len(segments) :
    ContentClassified(segments[j]) =>
      /\ segments[j].speaker = "AI" <=> AiProbabilityOf(segments[j]) > 5000
      /\ segments[j].speaker = "Student" <=> AiProbabilityOf(segments[j]) <= 5000
      /\ variant # "original" =>
           (AiProbabilityOf(segments[j]) = 5000
              <=> (IF variant = "simple" THEN simple_score(segments[j].text, fk_grade)
                   ELSE v2_score(segments[j].text,
                                 extract_features(segments[j].text, fk_grade))) = 0)

\* A content-classified segment of simple or v2 whose net score is zero.
C21_Witness ==
  /\ variant # "original"
  /\ \E j \in 1..Len(segments) :
       /\ ContentClassified(segments[j])
       /\ AiProbabilityOf(segments[j]) = 5000
       /\ segments[j].speaker = "Student"

\* max(ai_probability, 1 - ai_probability) of a content-classified segment.
MaxProbabilityOf(seg) == Max(AiProbabilityOf(seg), 10000 - AiProbabilityOf(seg))

\* C22 as stated: in all three variants a content-classified segment has
\* confidence max(ai_probability, 1 - ai_probability), hence at least 0.5.
C22_ConfidenceIsMaxProbability ==
  \A j \in 1..Len(segments) :
    ContentClassified(segments[j]) =>
      /\ segments[j].confidence = MaxProbabilityOf(segments[j])
      /\ segments[j].confidence >= 5000

\* C22: in simple and v2 a content-classified segment has confidence
\* max(ai_probability, 1 - ai_probability), hence at least 0.5 and exactly 0.5
\* on the decision boundary; in the original it has confidence
\* 2 * |ai_probability - 0.5|, which is 0 on the boundary.
C22_ConfidenceOfContentSegment ==
  \A j \in 1..Len(segments) :
    ContentClassified(segments[j]) =>
      IF variant = "original"
      THEN /\ segments[j].confidence = 2 * Abs(AiProbabilityOf(segments[j]) - 5000)
           /\ AiProbabilityOf(segments[j]) = 5000 => segments[j].confidence = 0
      ELSE /\ segments[j].confidence = MaxProbabilityOf(segments[j])
           /\ segments[j].confidence >= 5000
           /\ AiProbabilityOf(segments[j]) = 5000 => segments[j].confidence = 5000

\* A Student segment of v2 whose confidence is 1 - ai_probability, above 0.5.
C22_V2StudentSegment ==
  /\ variant = "v2"
  /\ \E j \in 1..Len(segments) :
       /\ ContentClassified(segments[j])
       /\ AiProbabilityOf(segments[j]) < 5000
       /\ segments[j].confidence = 10000 - AiProbabilityOf(segments[j])

\* A segment of the original on the decision boundary, with confidence 0.
C22_OriginalBoundary ==
  /\ variant = "original"
  /\ \E j \in 1..Len(segments) :
       /\ ContentClassified(segments[j])
       /\ AiProbabilityOf(segments[j]) = 5000
       /\ segments[j].confidence = 0

\* A segment of v2 on the decision boundary, with confidence 0.5.
C22_V2Boundary ==
  /\ variant = "v2"
  /\ \E j \in 1..Len(segments) :
       /\ ContentClassified(segments[j])
       /\ segments[j].confidence = 5000

\* The texts that content scoring is applied to in simple and v2.
ScoredSegments ==
  IF variant = "original" THEN {}
  ELSE {j \in 1..Len(segments) : ContentClassified(segments[j])}

\* C23: the content pattern score of a text is (AI increment) x (number of
\* distinct AI-indicative rules matching the text) minus (Student decrement) x
\* (number of distinct Student-indicative rules matching), each rule counted
\* once however many lines of the text it matches (0.2 / 0.25 in simple,
\* 0.15 / 0.20 in v2).
C23_PatternScoreAdditive ==
  \A j \in ScoredSegments :
    /\ content_pattern_score(variant, segments[j].text)
         = AiIncrement(variant) * Cardinality(AiContentRules(variant, segments[j].text))
           - StudentDecrement(variant)
               * Cardinality(StudentContentRules(variant, segments[j].text))
    /\ AiIncrement(variant) = (IF variant = "simple" THEN 4 ELSE 3)
    /\ StudentDecrement(variant) = (IF variant = "simple" THEN 5 ELSE 4)

\* A scored text in which several AI rules and several Student rules match and
\* one rule matches on two lines.
C23_Witness ==
  \E j \in ScoredSegments :
    LET text == segments[j].text
    IN  /\ Cardinality(AiContentRules(variant, text)) >= 2
        /\ Cardinality(StudentContentRules(variant, text)) >= 2
        /\ \E a, b \in 1..Len(text) :
             /\ a # b
             /\ Attr(variant, text[a]).stPat \cap Attr(variant, text[b]).stPat # {}

\* The sum of the confidences of the segments of an analysis.
ConfidenceSum(a) == SeqSum([j \in 1..Len(a.segments) |-> a.segments[j].confidence])

\* An analysis that simple or v2 returned.
Returned == pc = "done" /\ variant # "original"

\* C24: confidence_score of an analysis is the arithmetic mean of the
\* confidences of its segments, and is 0 when there is no segment (empty file,
\* read error, or content from which every segment was discarded).
C24_MeanConfidence ==
  Returned =>
    /\ result.confidence_score.den > 0
    /\ result.segments # <<>> =>
         result.confidence_score.num * Len(result.segments)
           = ConfidenceSum(result) * result.confidence_score.den
    /\ result.segments = <<>> => result.confidence_score.num = 0

\* An analysis of segments with different confidences.
C24_Witness ==
  /\ Returned
  /\ Len(result.segments) >= 2
  /\ \E a, b \in 1..Len(result.segments) :
       result.segments[a].confidence # result.segments[b].confidence

\* An analysis of non-empty content from which every segment was discarded.
C24_AllDiscarded ==
  /\ Returned
  /\ result.segments = <<>>
  /\ "Read error" \notin result.quality_flags
  /\ "Empty file" \notin result.quality_flags
  /\ result.confidence_score.num = 0

\* The names of the three quality flags in the variant.
LowConfidenceFlag == IF variant = "simple" THEN "Low confidence" ELSE "Low confidence predictions"
VeryShortFlag == IF variant = "simple" THEN "Very short" ELSE "Very short transcript"
FewSegmentsFlag == IF variant = "simple" THEN "Few segments" ELSE "Few speaker segments detected"

\* An analysis by simple or v2 of readable, non-empty content.
AnalyzedContent ==
  /\ Returned
  /\ "Read error" \notin result.quality_flags
  /\ "Empty file" \notin result.quality_flags

\* C25: for readable, non-empty content the low-confidence flag is present iff
\* the mean confidence is below 0.6, the very-short flag iff total_words < 100,
\* and the few-segments flag iff the segment count is below 2 in simple and 3
\* in v2; there is no other flag.
C25_FlagsIndependent ==
  AnalyzedContent =>
    /\ LowConfidenceFlag \in result.quality_flags
         <=> (IF result.segments = <<>> THEN TRUE
              ELSE ConfidenceSum(result) < 6000 * Len(result.segments))
    /\ VeryShortFlag \in result.quality_flags <=> result.total_words < 100
    /\ FewSegmentsFlag \in result.quality_flags
         <=> Len(result.segments) < (IF variant = "simple" THEN 2 ELSE 3)
    /\ result.quality_flags \subseteq {LowConfidenceFlag, VeryShortFlag, FewSegmentsFlag}

\* An analysis with the few-segments flag alone: a long transcript in one
\* confident segment.
C25_Witness ==
  /\ AnalyzedContent
  /\ result.quality_flags = {FewSegmentsFlag}

\* An analysis with the very-short flag alone.
C25_VeryShortAlone ==
  /\ AnalyzedContent
  /\ result.quality_flags = {VeryShortFlag}

\* An analysis with no flag.
C25_NoFlag ==
  /\ AnalyzedContent
  /\ result.segments # <<>>
  /\ result.quality_flags = {}

\* An analysis with all three flags.
C25_AllFlags ==
  /\ AnalyzedContent
  /\ result.quality_flags = {LowConfidenceFlag, VeryShortFlag, FewSegmentsFlag}

\* An analysis with the low-confidence and few-segments flags and enough words.
C25_LowConfidenceLong ==
  /\ AnalyzedContent
  /\ result.quality_flags = {LowConfidenceFlag, FewSegmentsFlag}

\* The 0-based index of the first marker line; the line count when no line
\* carries a marker.
FirstMarkerLine ==
  LET marked == {j \in 0..(Len(lines) - 1) : HasMarker(lines[j + 1])}
  IN  IF marked = {} THEN Len(lines)
      ELSE CHOOSE j \in marked : \A k \in marked : j <= k

\* The segments that the marker pass has emitted.
MarkerPassSegments == {j \in 1..Len(segments) : segments[j].path = "marker_pass"}

\* At most one segment of the marker pass is labelled by the classifier, the
\* text before the first marker line; every segment that starts at or after
\* the first marker line has the role of the marker on its first line and
\* confidence 0.9.
C26_OneContentSegment ==
  /\ Cardinality({j \in MarkerPassSegments : segments[j].by # "marker"}) <= 1
  /\ \A j \in MarkerPassSegments :
       IF segments[j].line_start >= FirstMarkerLine
       THEN /\ segments[j].by = "marker"
            /\ segments[j].confidence = MarkerPassConfidence
            /\ segments[j].speaker = detected_speaker(variant, lines[segments[j].line_start + 1])
       ELSE /\ j = 1
            /\ segments[j].by = "content"
            /\ segments[j].line_start = 0
            /\ segments[j].line_end < FirstMarkerLine
  /\ pc = "segment" /\ i > FirstMarkerLine => current_speaker # "None"

\* During the marker pass a current speaker is never reset to none.
C26_SpeakerKept ==
  pc = "segment" /\ current_speaker # "None" => current_speaker' # "None"

\* C26: in the marker pass at most one segment per transcript is classified by
\* content, the text before the first marker line; once a marker has been seen
\* the current speaker is never reset to none, so every segment that starts at
\* or after the first marker line has a marker's role and confidence 0.9.
C26_ContentOnlyBeforeFirstMarker ==
  []C26_OneContentSegment /\ [][C26_SpeakerKept]_vars

\* A marker pass that emitted a content-classified segment and then, after a
\* blank line and an unmarked line inside a marked turn, a marker segment.
C26_Witness ==
  /\ pc = "aggregate"
  /\ Len(segments) >= 2
  /\ segments[1].path = "marker_pass" /\ segments[1].by = "content"
  /\ \E j \in 2..Len(segments) :
       /\ segments[j].by = "marker"
       /\ segments[j].line_end > segments[j].line_start
       /\ ~ HasMarker(lines[segments[j].line_end + 1])

\* C27 as stated: in simple and v2 an analysis of non-empty content with the
\* low-confidence flag has the few-segments flag as well, a mean confidence
\* below 0.6 being reachable with a single segment only.
C27_LowConfidenceOnlySingleSegment ==
  AnalyzedContent /\ LowConfidenceFlag \in result.quality_flags =>
    /\ FewSegmentsFlag \in result.quality_flags
    /\ Len(result.segments) = 1

\* C27: in simple and v2 an analysis of non-empty content with the
\* low-confidence flag has the few-segments flag as well: a content-classified
\* confidence is at least 0.5 and every other segment has confidence 0.9 or
\* 0.95, so a mean confidence below 0.6 is reachable only with a single
\* segment or with none (every segment discarded, mean 0).
C27_LowConfidenceImpliesFewSegments ==
  AnalyzedContent =>
    /\ \A j \in 1..Len(result.segments) :
         IF ContentClassified(result.segments[j])
         THEN result.segments[j].confidence >= 5000
         ELSE result.segments[j].confidence \in {MarkerPassConfidence, MarkerCheckConfidence}
    /\ LowConfidenceFlag \in result.quality_flags =>
         /\ FewSegmentsFlag \in result.quality_flags
         /\ Len(result.segments) <= 1

\* A single content-classified segment with confidence below 0.6: both flags.
C27_Witness ==
  /\ AnalyzedContent
  /\ Len(result.segments) = 1
  /\ result.segments[1].confidence < 6000
  /\ {LowConfidenceFlag, FewSegmentsFlag} \subseteq result.quality_flags

\* Non-empty content with no segment: mean confidence 0, both flags.
C27_NoSegment ==
  /\ AnalyzedContent
  /\ result.segments = <<>>
  /\ {LowConfidenceFlag, FewSegmentsFlag} \subseteq result.quality_flags

\* Two segments, one of them content-classified with confidence below 0.6, and
\* no low-confidence flag.
C27_TwoSegments ==
  /\ AnalyzedContent
  /\ Len(result.segments) = 2
  /\ result.segments[1].confidence < 6000
  /\ LowConfidenceFlag \notin result.quality_flags

\* The role that the classifier returns for line k taken alone
\* (classify_speaker in simple, calculate_speaker_probability in v2).
ClassifierRole(k) ==
  IF variant = "simple" THEN classify_speaker(<<Raw(k)>>, fk_grade).speaker
  ELSE calculate_speaker_probability(<<Raw(k)>>,
                                     extract_features(<<Raw(k)>>, fk_grade)).speaker

\* The marker pass has just handled line i - 1, a marker line.
MarkerLineHandled ==
  /\ variant # "original"
  /\ pc = "segment" /\ i > 0
  /\ HasMarker(lines[i])

\* C28 as stated: for every line that matches an explicit marker rule, the
\* role the marker pass detects on it, which is the current speaker once the
\* line is handled, equals the role the classifier returns for that line.
C28_SegmenterAgreesWithClassifier ==
  MarkerLineHandled => current_speaker = ClassifierRole(lines[i])

\* In simple the two agree on every marker line, and in v2 on every line that
\* matches the rules of one role only.
C28_AgreeUnlessBothRolesInV2 ==
  MarkerLineHandled
  /\ (variant = "simple"
      \/ AiMarkerRules("v2", <<Raw(lines[i])>>) = {}
      \/ StudentMarkerRules("v2", <<Raw(lines[i])>>) = {})
    => current_speaker = ClassifierRole(lines[i])

\* A line matching a Student rule and an AI rule, handled by simple.
C28_BothRolesInSimple ==
  /\ MarkerLineHandled /\ variant = "simple"
  /\ AiMarkerRules("simple", <<Raw(lines[i])>>) # {}
  /\ StudentMarkerRules("simple", <<Raw(lines[i])>>) # {}

\* 0 <= start_line <= end_line <= line_count - 1
ValidBounds(seg) ==
  /\ 0 <= seg.line_start
  /\ seg.line_start <= seg.line_end
  /\ seg.line_end <= Len(lines) - 1

\* C29 as stated: every returned segment has valid line bounds for its
\* transcript, 0 <= start_line <= end_line <= line_count - 1, on the marker
\* pass and on the fallback path.
C29_ValidLineBounds ==
  \A j \in 1..Len(segments) : ValidBounds(segments[j])

\* The bounds are valid on the marker pass of all three variants and on the
\* single block of simple; chunk n of the v2 fallback has [10 (n - 1), 10 n].
C29_ValidExceptV2Fallback ==
  \A j \in 1..Len(segments) :
    IF variant = "v2" /\ segments[j].path = "fallback"
    THEN /\ segments[j].line_start = 10 * (j - 1)
         /\ segments[j].line_end = 10 * j
    ELSE ValidBounds(segments[j])

\* A chunk of the v2 fallback that ends beyond the last line of the transcript.
C29_ChunkBeyondLastLine ==
  /\ variant = "v2" /\ pc = "done"
  /\ \E j \in 1..Len(result.segments) :
       /\ result.segments[j].path = "fallback"
       /\ result.segments[j].line_end > Len(lines) - 1

\* A text with the marker prefix of every marker line stripped.
Stripped(text) ==
  [p \in 1..Len(text) |-> IF HasMarker(text[p].kind) THEN Clean(text[p].kind) ELSE text[p]]

\* C30 as stated: every line recognised as carrying a marker joins a segment
\* of the marker pass with its marker prefix stripped, when it starts a new
\* segment and when it is appended to the open segment of the same speaker,
\* so the word count of a segment counts no marker token.
C30_MarkerWordsNotCounted ==
  \A j \in MarkerPassSegments :
    /\ segments[j].text = Stripped(segments[j].text)
    /\ segments[j].word_count = count_words(variant, Stripped(segments[j].text))

\* The marker is stripped only from the line that starts a segment; every
\* other line of the text is the line as it is, a marker of the current
\* speaker included.
C30_StrippedOnlyAtSegmentStart ==
  \A j \in MarkerPassSegments :
    \A p \in 1..Len(segments[j].text) :
      segments[j].text[p].form = "clean" => (p = 1 /\ segments[j].by = "marker")

\* A segment holding a marker line of its own speaker with the marker in it,
\* whose words are counted.
C30_MarkerCounted ==
  /\ pc = "done"
  /\ \E j \in 1..Len(result.segments) :
       /\ result.segments[j].path = "marker_pass"
       /\ result.segments[j].word_count
            > count_words(variant, Stripped(result.segments[j].text))

====
